---- MODULE Spec2Model ----
(***************************************************************************)
(* Production Scheduling Engine of the ERP backend                         *)
(* (backend/production_scheduling.py, backend/server.py).                  *)
(*                                                                         *)
(* The persistence store is a set of collections; every collection is a    *)
(* sequence of documents in insertion order, so that find_one is "the      *)
(* first stored document that matches".  Handlers run one at a time        *)
(* (sequential requests), each handler is one action.                      *)
(*                                                                         *)
(* Numbers.  Drums and net weights are whole numbers.  Material            *)
(* quantities (on hand, reserved, inbound, required, shortage) and the     *)
(* BOM ratios are fixed-point numbers in hundredths: a ratio of 85 is      *)
(* 0.85 kg per kg, a quantity of 1530000 is 15300.00.  The rounding of     *)
(* Python floats is not modelled.  Dates are day numbers.  None is -1 in   *)
(* a numeric field and "None" in a string field.                           *)
(***************************************************************************)
EXTENDS Integers, Sequences, FiniteSets, TLC

VARIABLES
    products,                       \* db.products
    packaging,                      \* db.packaging
    product_packaging_specs,        \* db.product_packaging_specs
    product_boms,                   \* db.product_boms
    product_bom_items,              \* db.product_bom_items
    packaging_boms,                 \* db.packaging_boms
    packaging_bom_items,            \* db.packaging_bom_items
    inventory_items,                \* db.inventory_items
    inventory_balances,             \* db.inventory_balances
    inventory_reservations,         \* db.inventory_reservations
    purchase_orders,                \* db.purchase_orders
    purchase_order_lines,           \* db.purchase_order_lines
    job_orders,                     \* db.job_orders
    production_campaigns,           \* db.production_campaigns
    production_campaign_job_links,  \* db.production_campaign_job_links
    production_schedule_days,       \* db.production_schedule_days
    production_day_requirements,    \* db.production_day_requirements
    procurement_requisitions,       \* db.procurement_requisitions
    procurement_requisition_lines,  \* db.procurement_requisition_lines
    next_id,                        \* source of fresh identifiers (uuid4)
    calls,                          \* number of handler calls made, per handler
    result                          \* what the last handler call returned

refvars == <<products, packaging, product_packaging_specs, product_boms,
             product_bom_items, packaging_boms, packaging_bom_items,
             inventory_items, purchase_orders, purchase_order_lines>>

vars == <<products, packaging, product_packaging_specs, product_boms,
          product_bom_items, packaging_boms, packaging_bom_items,
          inventory_items, inventory_balances, inventory_reservations,
          purchase_orders, purchase_order_lines, job_orders,
          production_campaigns, production_campaign_job_links,
          production_schedule_days, production_day_requirements,
          procurement_requisitions, procurement_requisition_lines,
          next_id, calls, result>>

----------------------------------------------------------------------------
(* Bounds of the model *)

MaxJobs == 2          \* job orders in the store
MaxCalls == 3         \* handler calls made
Today == 5            \* the date datetime.now() falls on

(* Program constants *)

DailyCapacity == 600
WindowDays == 7

WeekStarts == {0, 7}  \* the Mondays a schedule is requested for

----------------------------------------------------------------------------
(* Python values *)

None == -1
NoneStr == "None"
NoRow == [none |-> TRUE]

\* Python truthiness of an Optional number: None and 0 are false
Truthy(x) == x # None /\ x # 0

Min2(a, b) == IF a <= b THEN a ELSE b
Max2(a, b) == IF a >= b THEN a ELSE b

MinOf(S) == CHOOSE x \in S : \A y \in S : x <= y

Range(s) == {s[i] : i \in 1..Len(s)}

RECURSIVE SumQty(_)
SumQty(s) == IF s = <<>> THEN 0 ELSE Head(s) + SumQty(Tail(s))

\* the sequences of at most n elements of S
RECURSIVE SeqsUpTo(_, _)
SeqsUpTo(S, n) ==
    IF n = 0 THEN {<<>>}
    ELSE LET shorter == SeqsUpTo(S, n - 1)
         IN  shorter \cup {Append(q, x) : q \in shorter, x \in S}

\* collection.find_one(filter): the first stored document that matches
find_one(coll, Match(_)) ==
    LET hits == {i \in 1..Len(coll) : Match(coll[i])}
    IN  IF hits = {} THEN NoRow ELSE coll[MinOf(hits)]

\* collection.find(filter).to_list(None): the matching documents, in order
find(coll, Match(_)) == SelectSeq(coll, Match)

\* a value computed once and handed on: Rest applied to the value
Then(value, Rest(_)) == CHOOSE r \in {Rest(v) : v \in {value}} : TRUE

\* the values of one numeric field of a list of documents
Column(rows, Field(_)) == [i \in 1..Len(rows) |-> Field(rows[i])]

----------------------------------------------------------------------------
(* The store as one value, as the handlers see it (self.db / db) *)

DB ==
    [products |-> products,
     packaging |-> packaging,
     product_packaging_specs |-> product_packaging_specs,
     product_boms |-> product_boms,
     product_bom_items |-> product_bom_items,
     packaging_boms |-> packaging_boms,
     packaging_bom_items |-> packaging_bom_items,
     inventory_items |-> inventory_items,
     inventory_balances |-> inventory_balances,
     inventory_reservations |-> inventory_reservations,
     purchase_orders |-> purchase_orders,
     purchase_order_lines |-> purchase_order_lines,
     job_orders |-> job_orders,
     production_campaigns |-> production_campaigns,
     production_campaign_job_links |-> production_campaign_job_links,
     production_schedule_days |-> production_schedule_days,
     production_day_requirements |-> production_day_requirements,
     procurement_requisitions |-> procurement_requisitions,
     procurement_requisition_lines |-> procurement_requisition_lines,
     next_id |-> next_id]

\* the handler's writes become the next state
Commit(db) ==
    /\ inventory_balances' = db.inventory_balances
    /\ inventory_reservations' = db.inventory_reservations
    /\ job_orders' = db.job_orders
    /\ production_campaigns' = db.production_campaigns
    /\ production_campaign_job_links' = db.production_campaign_job_links
    /\ production_schedule_days' = db.production_schedule_days
    /\ production_day_requirements' = db.production_day_requirements
    /\ procurement_requisitions' = db.procurement_requisitions
    /\ procurement_requisition_lines' = db.procurement_requisition_lines
    /\ next_id' = db.next_id
    /\ UNCHANGED refvars

----------------------------------------------------------------------------
(* Conversion Resolver *)

\* variant: the packaging default is tried before the spec of the pair
get_net_weight_kg_default_first(db, product_id, packaging_id) ==
    LET spec == find_one(db.product_packaging_specs,
                    LAMBDA s : s.product_id = product_id
                               /\ s.packaging_id = packaging_id)
        pack == find_one(db.packaging, LAMBDA k : k.id = packaging_id)
        product == find_one(db.products, LAMBDA p : p.id = product_id)
    IN  IF pack # NoRow /\ Truthy(pack.net_weight_kg_default)
        THEN pack.net_weight_kg_default
        ELSE IF spec # NoRow /\ Truthy(spec.net_weight_kg)
        THEN spec.net_weight_kg
        ELSE IF /\ pack # NoRow /\ Truthy(pack.capacity_liters)
                /\ product # NoRow /\ Truthy(product.density_kg_per_l)
        THEN pack.capacity_liters * product.density_kg_per_l
        ELSE None

\* variant: a numeric default stands in when nothing resolves
get_net_weight_kg_with_default(db, product_id, packaging_id) ==
    LET spec == find_one(db.product_packaging_specs,
                    LAMBDA s : s.product_id = product_id
                               /\ s.packaging_id = packaging_id)
        pack == find_one(db.packaging, LAMBDA k : k.id = packaging_id)
        product == find_one(db.products, LAMBDA p : p.id = product_id)
    IN  IF spec # NoRow /\ Truthy(spec.net_weight_kg)
        THEN spec.net_weight_kg
        ELSE IF pack # NoRow /\ Truthy(pack.net_weight_kg_default)
        THEN pack.net_weight_kg_default
        ELSE IF /\ pack # NoRow /\ Truthy(pack.capacity_liters)
                /\ product # NoRow /\ Truthy(product.density_kg_per_l)
        THEN pack.capacity_liters * product.density_kg_per_l
        ELSE 180

get_net_weight_kg(db, product_id, packaging_id) ==
    LET spec == find_one(db.product_packaging_specs,
                    LAMBDA s : s.product_id = product_id
                               /\ s.packaging_id = packaging_id)
        pack == find_one(db.packaging, LAMBDA k : k.id = packaging_id)
        product == find_one(db.products, LAMBDA p : p.id = product_id)
    IN  IF spec # NoRow /\ Truthy(spec.net_weight_kg)
        THEN spec.net_weight_kg
        ELSE IF pack # NoRow /\ Truthy(pack.net_weight_kg_default)
        THEN pack.net_weight_kg_default
        ELSE IF /\ pack # NoRow /\ Truthy(pack.capacity_liters)
                /\ product # NoRow /\ Truthy(product.density_kg_per_l)
        THEN pack.capacity_liters * product.density_kg_per_l
        ELSE None

----------------------------------------------------------------------------
(* Inventory Snapshot Reader *)

\* variant: the status of the purchase order is not looked at
get_available_quantity_any_status(db, item_id, schedule_date) ==
    LET balance == find_one(db.inventory_balances,
                       LAMBDA b : b.item_id = item_id)
        on_hand == IF balance # NoRow THEN balance.on_hand ELSE 0
        reservations == find(db.inventory_reservations,
                            LAMBDA r : r.item_id = item_id)
        reserved == SumQty(Column(reservations, LAMBDA r : r.qty))
        inbound_lines ==
            find(db.purchase_order_lines,
                 LAMBDA l : /\ l.item_id = item_id
                            /\ l.promised_delivery_date # None
                            /\ l.promised_delivery_date <= schedule_date
                            /\ \E i \in 1..Len(db.purchase_orders) :
                                  db.purchase_orders[i].id = l.po_id)
        inbound_qty == Column(inbound_lines,
                              LAMBDA l : l.qty - l.received_qty)
        inbound == SumQty(SelectSeq(inbound_qty, LAMBDA q : q > 0))
    IN  on_hand - reserved + inbound

get_available_quantity(db, item_id, schedule_date) ==
    LET balance == find_one(db.inventory_balances,
                       LAMBDA b : b.item_id = item_id)
        on_hand == IF balance # NoRow THEN balance.on_hand ELSE 0
        reservations == find(db.inventory_reservations,
                            LAMBDA r : r.item_id = item_id)
        reserved == SumQty(Column(reservations, LAMBDA r : r.qty))
        \* $match item and promised date, $lookup/$unwind the order,
        \* $match the order's status
        inbound_lines ==
            find(db.purchase_order_lines,
                 LAMBDA l : /\ l.item_id = item_id
                            /\ l.promised_delivery_date # None
                            /\ l.promised_delivery_date <= schedule_date
                            /\ \E i \in 1..Len(db.purchase_orders) :
                                  /\ db.purchase_orders[i].id = l.po_id
                                  /\ db.purchase_orders[i].status
                                        \in {"SENT", "PARTIAL"})
        inbound_qty == Column(inbound_lines,
                              LAMBDA l : l.qty - l.received_qty)
        inbound == SumQty(SelectSeq(inbound_qty, LAMBDA q : q > 0))
    IN  on_hand - reserved + inbound

----------------------------------------------------------------------------
(* Procurement Requisition Generator *)

\* variant: a line is created without a look for an existing one
RECURSIVE create_pr_lines_without_lookup(_, _, _, _)
create_pr_lines_without_lookup(db, pr, schedule_day, shortages) ==
    IF shortages = <<>> THEN db
    ELSE
      LET shortage == Head(shortages)
          item == find_one(db.inventory_items,
                      LAMBDA it : it.id = shortage.item_id)
          pr_line == [id |-> db.next_id,
                      pr_id |-> pr.id,
                      item_id |-> shortage.item_id,
                      item_type |-> shortage.item_type,
                      qty |-> shortage.shortage,
                      uom |-> IF item # NoRow THEN item.uom ELSE "KG",
                      required_by |-> schedule_day.schedule_date,
                      linked_campaign_id |-> schedule_day.campaign_id,
                      linked_schedule_day_id |-> schedule_day.id]
      IN  Then([db EXCEPT
                  !.procurement_requisition_lines = Append(@, pr_line),
                  !.next_id = @ + 1],
               LAMBDA db1 :
                 create_pr_lines_without_lookup(db1, pr, schedule_day,
                                                Tail(shortages)))

RECURSIVE create_pr_lines(_, _, _, _)
create_pr_lines(db, pr, schedule_day, shortages) ==
    IF shortages = <<>> THEN db
    ELSE
      LET shortage == Head(shortages)
          existing == find_one(db.procurement_requisition_lines,
                          LAMBDA l : /\ l.pr_id = pr.id
                                     /\ l.item_id = shortage.item_id
                                     /\ l.required_by = schedule_day.schedule_date
                                     /\ l.linked_schedule_day_id = schedule_day.id)
          item == find_one(db.inventory_items,
                      LAMBDA it : it.id = shortage.item_id)
          pr_line == [id |-> db.next_id,
                      pr_id |-> pr.id,
                      item_id |-> shortage.item_id,
                      item_type |-> shortage.item_type,
                      qty |-> shortage.shortage,
                      uom |-> IF item # NoRow THEN item.uom ELSE "KG",
                      required_by |-> schedule_day.schedule_date,
                      linked_campaign_id |-> schedule_day.campaign_id,
                      linked_schedule_day_id |-> schedule_day.id]
      IN  Then(IF existing = NoRow
               THEN [db EXCEPT
                       !.procurement_requisition_lines = Append(@, pr_line),
                       !.next_id = @ + 1]
               ELSE db,
               LAMBDA db1 :
                 create_pr_lines(db1, pr, schedule_day, Tail(shortages)))

\* variant: a requisition header is created on every call
_create_procurement_requisitions_always_new(db, schedule_day, shortages) ==
    LET pr_record == [id |-> db.next_id, status |-> "DRAFT"]
    IN  Then([db EXCEPT
                !.procurement_requisitions = Append(@, pr_record),
                !.next_id = @ + 1],
             LAMBDA db1 :
               create_pr_lines(db1, pr_record, schedule_day, shortages))

_create_procurement_requisitions(db, schedule_day, shortages) ==
    LET found == find_one(db.procurement_requisitions,
                     LAMBDA r : r.status = "DRAFT")
        pr_record == [id |-> db.next_id, status |-> "DRAFT"]
        pr == IF found = NoRow THEN pr_record ELSE found
    IN  Then(IF found = NoRow
             THEN [db EXCEPT
                     !.procurement_requisitions = Append(@, pr_record),
                     !.next_id = @ + 1]
             ELSE db,
             LAMBDA db1 : create_pr_lines(db1, pr, schedule_day, shortages))

----------------------------------------------------------------------------
(* Material Availability Checker *)

\* the requirement rows of one tier, one per BOM item in BOM order;
\* Item, Required: the item and the required quantity of a BOM item
requirement_rows(db, schedule_day, items, item_type, first_id,
                 Item(_), Required(_)) ==
    [i \in 1..Len(items) |->
        LET available == get_available_quantity(db, Item(items[i]),
                                                schedule_day.schedule_date)
        IN  [id |-> first_id + i - 1,
             schedule_day_id |-> schedule_day.id,
             item_id |-> Item(items[i]),
             item_type |-> item_type,
             required_qty |-> Required(items[i]),
             available_qty_snapshot |-> available,
             shortage_qty |-> Max2(0, Required(items[i]) - available)]]

\* the shortages list: the rows with a positive shortage
shortage_entries(rows) ==
    LET short == SelectSeq(rows, LAMBDA q : q.shortage_qty > 0)
    IN  [i \in 1..Len(short) |->
            [item_id |-> short[i].item_id,
             item_type |-> short[i].item_type,
             required |-> short[i].required_qty,
             available |-> short[i].available_qty_snapshot,
             shortage |-> short[i].shortage_qty]]

\* variant: a RAW shortage decides the reason without a look at PACK
blocking_reason_of_raw_first(shortages) ==
    LET raw_shortages == SelectSeq(shortages, LAMBDA x : x.item_type = "RAW")
    IN  IF raw_shortages # <<>> THEN "RAW_SHORTAGE" ELSE "PACK_SHORTAGE"

blocking_reason_of(shortages) ==
    LET raw_shortages == SelectSeq(shortages, LAMBDA x : x.item_type = "RAW")
        pack_shortages == SelectSeq(shortages, LAMBDA x : x.item_type = "PACK")
    IN  IF raw_shortages # <<>> /\ pack_shortages # <<>>
        THEN "RAW_PACK_SHORTAGE"
        ELSE IF raw_shortages # <<>> THEN "RAW_SHORTAGE"
        ELSE "PACK_SHORTAGE"

\* variant: the requirement rows are stored and their quantities reserved
insert_requirements_reserving(db, rows) ==
    [db EXCEPT
       !.production_day_requirements = @ \o rows,
       !.inventory_reservations = @ \o
           [i \in 1..Len(rows) |->
               [id |-> db.next_id + Len(rows) + i - 1,
                item_id |-> rows[i].item_id,
                ref_type |-> "SCHEDULE_DAY",
                ref_id |-> rows[i].schedule_day_id,
                qty |-> rows[i].required_qty,
                created_at |-> 0]],
       !.next_id = @ + 2 * Len(rows)]

\* variant: only the rows with a shortage are stored
insert_requirements_short_only(db, rows) ==
    LET short == SelectSeq(rows, LAMBDA q : q.shortage_qty > 0)
    IN  [db EXCEPT
           !.production_day_requirements = @ \o short,
           !.next_id = @ + Len(rows)]

\* production_day_requirements.insert_one, once per requirement row
insert_requirements(db, rows) ==
    [db EXCEPT
       !.production_day_requirements = @ \o rows,
       !.next_id = @ + Len(rows)]

\* variant: a formulation without items is not checked for
_check_material_availability_without_bom_check(db, schedule_day, campaign) ==
    LET net_weight_kg == get_net_weight_kg(db, campaign.product_id,
                                           campaign.packaging_id)
        finished_kg == schedule_day.planned_drums * net_weight_kg
        bom_items == find(db.product_bom_items,
                          LAMBDA b : b.bom_id = campaign.bom_id)
        raw_rows == requirement_rows(db, schedule_day, bom_items, "RAW",
                        db.next_id,
                        LAMBDA b : b.material_item_id,
                        LAMBDA b : finished_kg * b.qty_kg_per_kg_finished)
        packaging_bom == find_one(db.packaging_boms,
                             LAMBDA pb : /\ pb.packaging_id = campaign.packaging_id
                                         /\ pb.is_active)
        pack_items == IF packaging_bom = NoRow THEN <<>>
                      ELSE find(db.packaging_bom_items,
                                LAMBDA pi : pi.packaging_bom_id = packaging_bom.id)
        pack_rows == requirement_rows(db, schedule_day, pack_items, "PACK",
                        db.next_id + Len(bom_items),
                        LAMBDA pi : pi.pack_item_id,
                        LAMBDA pi : schedule_day.planned_drums * pi.qty_per_drum)
    IN  IF ~Truthy(net_weight_kg)
        THEN [db |-> db,
              day |-> [schedule_day EXCEPT
                         !.status = "BLOCKED",
                         !.blocking_reason = "CONVERSION_MISSING"]]
        ELSE Then(raw_rows \o pack_rows, LAMBDA rows :
               Then(shortage_entries(rows), LAMBDA shortages :
                 Then(insert_requirements(db, rows), LAMBDA db1 :
                   IF shortages # <<>>
                   THEN LET day == [schedule_day EXCEPT
                                      !.status = "BLOCKED",
                                      !.blocking_reason =
                                          blocking_reason_of(shortages)]
                        IN  [db |-> _create_procurement_requisitions(
                                        db1, day, shortages),
                             day |-> day]
                   ELSE [db |-> db1,
                         day |-> [schedule_day EXCEPT
                                    !.status = "READY",
                                    !.blocking_reason = "NONE"]])))

\* returns the store and the schedule day, both as the call leaves them
_check_material_availability(db, schedule_day, campaign) ==
    LET net_weight_kg == get_net_weight_kg(db, campaign.product_id,
                                           campaign.packaging_id)
        finished_kg == schedule_day.planned_drums * net_weight_kg
        bom_items == find(db.product_bom_items,
                          LAMBDA b : b.bom_id = campaign.bom_id)
        raw_rows == requirement_rows(db, schedule_day, bom_items, "RAW",
                        db.next_id,
                        LAMBDA b : b.material_item_id,
                        LAMBDA b : finished_kg * b.qty_kg_per_kg_finished)
        packaging_bom == find_one(db.packaging_boms,
                             LAMBDA pb : /\ pb.packaging_id = campaign.packaging_id
                                         /\ pb.is_active)
        pack_items == IF packaging_bom = NoRow THEN <<>>
                      ELSE find(db.packaging_bom_items,
                                LAMBDA pi : pi.packaging_bom_id = packaging_bom.id)
        pack_rows == requirement_rows(db, schedule_day, pack_items, "PACK",
                        db.next_id + Len(bom_items),
                        LAMBDA pi : pi.pack_item_id,
                        LAMBDA pi : schedule_day.planned_drums * pi.qty_per_drum)
    IN  IF ~Truthy(net_weight_kg)
        THEN [db |-> db,
              day |-> [schedule_day EXCEPT
                         !.status = "BLOCKED",
                         !.blocking_reason = "CONVERSION_MISSING"]]
        ELSE IF bom_items = <<>>
        THEN [db |-> db,
              day |-> [schedule_day EXCEPT
                         !.status = "BLOCKED",
                         !.blocking_reason = "BOM_MISSING"]]
        ELSE Then(raw_rows \o pack_rows, LAMBDA rows :
               Then(shortage_entries(rows), LAMBDA shortages :
                 Then(insert_requirements(db, rows), LAMBDA db1 :
                   IF shortages # <<>>
                   THEN LET day == [schedule_day EXCEPT
                                      !.status = "BLOCKED",
                                      !.blocking_reason =
                                          blocking_reason_of(shortages)]
                        IN  [db |-> _create_procurement_requisitions(
                                        db1, day, shortages),
                             day |-> day]
                   ELSE [db |-> db1,
                         day |-> [schedule_day EXCEPT
                                    !.status = "READY",
                                    !.blocking_reason = "NONE"]])))

----------------------------------------------------------------------------
(* Demand Consolidator *)

DateMax == 999999     \* datetime.max

\* variant: the specification is left out of the key
ConsolidationKey_without_spec(product_id, packaging_id, spec_id, bom_id) ==
    [product_id |-> product_id,
     packaging_id |-> packaging_id,
     spec_id |-> "NONE",
     bom_id |-> bom_id]

\* ConsolidationKey.__init__: spec_id or "NONE"
ConsolidationKey(product_id, packaging_id, spec_id, bom_id) ==
    [product_id |-> product_id,
     packaging_id |-> packaging_id,
     spec_id |-> IF spec_id = NoneStr THEN "NONE" ELSE spec_id,
     bom_id |-> bom_id]

KeyOf(c) == ConsolidationKey(c.product_id, c.packaging_id, c.spec_id, c.bom_id)

\* CampaignData.__init__
CampaignData(product_id, packaging_id, spec_id, bom_id, bom_version) ==
    [product_id |-> product_id,
     packaging_id |-> packaging_id,
     spec_id |-> spec_id,
     bom_id |-> bom_id,
     bom_version |-> bom_version,
     total_drums |-> 0,
     earliest_due_date |-> None,
     job_links |-> <<>>]

\* CampaignData.add_job_item
add_job_item(campaign_data, job_item) ==
    [campaign_data EXCEPT
       !.total_drums = @ + job_item.qty_drums,
       !.earliest_due_date =
           IF @ = None \/ job_item.delivery_date < @
           THEN job_item.delivery_date ELSE @,
       !.job_links = Append(@, [job_order_item_id |-> job_item.id,
                                drums_allocated |-> job_item.qty_drums])]

\* int(job_item['quantity']): a job order's quantity is a float, stored
\* here in half drums; int() drops the fraction
int_drums(quantity) == quantity \div 2

\* Step 1: the aggregation pipeline over job_orders
open_job_items(db) ==
    find(db.job_orders,
         LAMBDA j : /\ \E i \in 1..Len(db.products) :
                          /\ db.products[i].id = j.product_id
                          /\ db.products[i].type = "MANUFACTURED"
                    /\ \E i \in 1..Len(db.packaging) :
                          db.packaging[i].id = j.packaging_id
                    /\ j.status \in {"pending", "in_production"}
                    /\ j.packaging_type = "DRUM")

\* variant: the active formulation stands in for a pinned version that
\* does not exist
resolve_bom_falling_back(db, job_item) ==
    LET pinned == find_one(db.product_boms,
                      LAMBDA b : /\ b.product_id = job_item.product_id
                                 /\ b.version = job_item.bom_version)
        active == find_one(db.product_boms,
                      LAMBDA b : /\ b.product_id = job_item.product_id
                                 /\ b.is_active)
    IN  IF Truthy(job_item.bom_version) /\ pinned # NoRow
        THEN pinned ELSE active

\* the formulation of a job: its pinned version, else the active one
resolve_bom(db, job_item) ==
    IF Truthy(job_item.bom_version)
    THEN find_one(db.product_boms,
             LAMBDA b : /\ b.product_id = job_item.product_id
                        /\ b.version = job_item.bom_version)
    ELSE find_one(db.product_boms,
             LAMBDA b : /\ b.product_id = job_item.product_id
                        /\ b.is_active)

\* Step 2: campaigns_map, in the order its keys were first inserted
RECURSIVE consolidate(_, _, _, _)
consolidate(db, job_items, campaigns_map, now) ==
    IF job_items = <<>> THEN campaigns_map
    ELSE
      LET job_item == Head(job_items)
          bom == resolve_bom(db, job_item)
          key == ConsolidationKey(job_item.product_id, job_item.packaging_id,
                                  job_item.spec_id, bom.id)
          at == {i \in 1..Len(campaigns_map) : KeyOf(campaigns_map[i]) = key}
          map1 == IF at = {}
                  THEN Append(campaigns_map,
                           CampaignData(job_item.product_id,
                                        job_item.packaging_id,
                                        job_item.spec_id, bom.id, bom.version))
                  ELSE campaigns_map
          k == IF at = {} THEN Len(map1) ELSE MinOf(at)
          added == [id |-> job_item.id,
                    qty_drums |-> int_drums(job_item.quantity),
                    delivery_date |-> IF job_item.delivery_date = None
                                      THEN now ELSE job_item.delivery_date]
      IN  IF bom = NoRow
          THEN consolidate(db, Tail(job_items), campaigns_map, now)
          ELSE Then([map1 EXCEPT ![k] = add_job_item(@, added)],
                    LAMBDA map2 :
                      consolidate(db, Tail(job_items), map2, now))

\* Step 3: sorted(..., key = earliest_due_date or datetime.max), stable
due_key(c) == IF c.earliest_due_date = None THEN DateMax
              ELSE c.earliest_due_date

\* variant: a campaign is placed before the campaigns of the same due date
RECURSIVE sort_campaigns_ties_reversed(_, _)
sort_campaigns_ties_reversed(campaigns, acc) ==
    IF campaigns = <<>> THEN acc
    ELSE
      LET c == Head(campaigns)
          k == Cardinality({i \in 1..Len(acc) : due_key(acc[i]) < due_key(c)})
      IN  Then(SubSeq(acc, 1, k) \o <<c>> \o SubSeq(acc, k + 1, Len(acc)),
               LAMBDA acc1 : sort_campaigns_ties_reversed(Tail(campaigns), acc1))

RECURSIVE sort_campaigns(_, _)
sort_campaigns(campaigns, acc) ==
    IF campaigns = <<>> THEN acc
    ELSE
      LET c == Head(campaigns)
          k == Cardinality({i \in 1..Len(acc) : due_key(acc[i]) <= due_key(c)})
      IN  Then(SubSeq(acc, 1, k) \o <<c>> \o SubSeq(acc, k + 1, Len(acc)),
               LAMBDA acc1 : sort_campaigns(Tail(campaigns), acc1))

----------------------------------------------------------------------------
(* Capacity Allocator *)

\* variant: the units already planned on the day are not counted
allocate_iteration_ignoring_day_total(daily_allocations, campaign, remaining_drums, day_offset) ==
    LET day_remaining == DailyCapacity
        drums_to_allocate == Min2(remaining_drums, day_remaining)
        allocs1 == [daily_allocations EXCEPT ![day_offset] =
                      Append(@, [campaign |-> campaign,
                                 drums |-> drums_to_allocate])]
        remaining1 == remaining_drums - drums_to_allocate
        offset1 == IF remaining1 > 0 THEN day_offset + 1 ELSE day_offset
    IN  <<allocs1, remaining1, offset1>>

\* variant: the day cursor stays on a day that is already full
allocate_iteration_staying_on_full_day(daily_allocations, campaign, remaining_drums, day_offset) ==
    LET day_total == SumQty(Column(daily_allocations[day_offset],
                                   LAMBDA a : a.drums))
        day_remaining == DailyCapacity - day_total
        drums_to_allocate == Min2(remaining_drums, day_remaining)
        allocs1 == IF day_remaining > 0
                   THEN [daily_allocations EXCEPT ![day_offset] =
                           Append(@, [campaign |-> campaign,
                                      drums |-> drums_to_allocate])]
                   ELSE daily_allocations
        remaining1 == IF day_remaining > 0
                      THEN remaining_drums - drums_to_allocate
                      ELSE remaining_drums
        offset1 == IF day_remaining > 0 /\ remaining1 > 0
                   THEN day_offset + 1 ELSE day_offset
    IN  <<allocs1, remaining1, offset1>>

\* one pass through the body of the while loop: the allocations, the
\* remaining drums and the day cursor it leaves
allocate_iteration(daily_allocations, campaign, remaining_drums, day_offset) ==
    LET day_total == SumQty(Column(daily_allocations[day_offset],
                                   LAMBDA a : a.drums))
        day_remaining == DailyCapacity - day_total
        drums_to_allocate == Min2(remaining_drums, day_remaining)
        allocs1 == IF day_remaining > 0
                   THEN [daily_allocations EXCEPT ![day_offset] =
                           Append(@, [campaign |-> campaign,
                                      drums |-> drums_to_allocate])]
                   ELSE daily_allocations
        remaining1 == IF day_remaining > 0
                      THEN remaining_drums - drums_to_allocate
                      ELSE remaining_drums
        offset1 == IF remaining1 > 0 THEN day_offset + 1 ELSE day_offset
    IN  <<allocs1, remaining1, offset1>>

\* the while loop of one campaign; campaign is its place in campaigns_list
RECURSIVE allocate_campaign(_, _, _, _)
allocate_campaign(daily_allocations, campaign, remaining_drums, day_offset) ==
    IF remaining_drums > 0 /\ day_offset < WindowDays
    THEN Then(allocate_iteration(daily_allocations, campaign,
                                 remaining_drums, day_offset),
              LAMBDA next :
                allocate_campaign(next[1], campaign, next[2], next[3]))
    ELSE daily_allocations

\* Step 4: the for loop over campaigns_list
RECURSIVE allocate(_, _, _)
allocate(campaigns_list, campaign, daily_allocations) ==
    IF campaign > Len(campaigns_list) THEN daily_allocations
    ELSE Then(allocate_campaign(daily_allocations, campaign,
                                campaigns_list[campaign].total_drums, 0),
              LAMBDA allocs1 : allocate(campaigns_list, campaign + 1, allocs1))

----------------------------------------------------------------------------
(* Schedule Regeneration Orchestrator *)

\* variant: every schedule day of the week is deleted, whatever its status
delete_week_days(days, week_start) ==
    SelectSeq(days, LAMBDA d : d.week_start # week_start)

\* delete_many({week_start, status: DRAFT}) on production_schedule_days
delete_draft_days(days, week_start) ==
    SelectSeq(days, LAMBDA d : ~(d.week_start = week_start
                                 /\ d.status = "DRAFT"))

\* Step 5: one campaign record per campaign, one link per job link
RECURSIVE create_campaign_records(_, _, _)
create_campaign_records(db, campaigns_list, created_at) ==
    IF campaigns_list = <<>> THEN db
    ELSE
      LET campaign_data == Head(campaigns_list)
          campaign == [id |-> db.next_id,
                       product_id |-> campaign_data.product_id,
                       packaging_id |-> campaign_data.packaging_id,
                       spec_id |-> campaign_data.spec_id,
                       bom_id |-> campaign_data.bom_id,
                       bom_version |-> campaign_data.bom_version,
                       total_drums |-> campaign_data.total_drums,
                       earliest_due_date |-> campaign_data.earliest_due_date,
                       status |-> "DRAFT",
                       created_at |-> created_at]
          links == [i \in 1..Len(campaign_data.job_links) |->
                      [id |-> db.next_id + i,
                       campaign_id |-> campaign.id,
                       job_order_item_id |->
                           campaign_data.job_links[i].job_order_item_id,
                       drums_allocated |->
                           campaign_data.job_links[i].drums_allocated]]
      IN  Then([db EXCEPT
                  !.production_campaigns = Append(@, campaign),
                  !.production_campaign_job_links = @ \o links,
                  !.next_id = @ + 1 + Len(links)],
               LAMBDA db1 :
                 create_campaign_records(db1, Tail(campaigns_list),
                                         created_at))

\* variant: every allocation is dated a day later
RECURSIVE allocations_in_order_a_day_later(_, _)
allocations_in_order_a_day_later(daily_allocations, day_offset) ==
    IF day_offset >= WindowDays THEN <<>>
    ELSE [i \in 1..Len(daily_allocations[day_offset]) |->
             [day_offset |-> day_offset + 1,
              campaign |-> daily_allocations[day_offset][i].campaign,
              drums |-> daily_allocations[day_offset][i].drums]]
         \o allocations_in_order_a_day_later(daily_allocations, day_offset + 1)

\* the allocations in the order Step 6 visits them: by day, then by
\* position in the day's list
RECURSIVE allocations_in_order(_, _)
allocations_in_order(daily_allocations, day_offset) ==
    IF day_offset >= WindowDays THEN <<>>
    ELSE [i \in 1..Len(daily_allocations[day_offset]) |->
             [day_offset |-> day_offset,
              campaign |-> daily_allocations[day_offset][i].campaign,
              drums |-> daily_allocations[day_offset][i].drums]]
         \o allocations_in_order(daily_allocations, day_offset + 1)

\* the campaign record Step 6 links a schedule day to
find_campaign_record(db, campaign_data) ==
    find_one(db.production_campaigns,
        LAMBDA c : /\ c.product_id = campaign_data.product_id
                   /\ c.packaging_id = campaign_data.packaging_id
                   /\ c.bom_id = campaign_data.bom_id)

\* Step 6: one schedule day per allocation, checked and then stored
RECURSIVE create_schedule_days(_, _, _, _, _)
create_schedule_days(db, campaigns_list, allocations, week_start, created_at) ==
    IF allocations = <<>> THEN db
    ELSE
      LET allocation == Head(allocations)
          campaign_record ==
              find_campaign_record(db, campaigns_list[allocation.campaign])
          schedule_day == [id |-> db.next_id,
                           week_start |-> week_start,
                           schedule_date |-> week_start + allocation.day_offset,
                           campaign_id |-> campaign_record.id,
                           planned_drums |-> allocation.drums,
                           status |-> "DRAFT",
                           blocking_reason |-> "NONE",
                           created_at |-> created_at]
      IN  IF campaign_record = NoRow
          THEN create_schedule_days(db, campaigns_list, Tail(allocations),
                                    week_start, created_at)
          ELSE Then(_check_material_availability(
                        [db EXCEPT !.next_id = @ + 1],
                        schedule_day, campaign_record),
                    LAMBDA checked :
                      Then([checked.db EXCEPT
                              !.production_schedule_days =
                                  Append(@, checked.day)],
                           LAMBDA db1 :
                             create_schedule_days(db1, campaigns_list,
                                 Tail(allocations), week_start, created_at)))

\* returns the store as the call leaves it and the summary it returns;
\* now: the date of datetime.now(), created_at: its timestamp
regenerate_schedule(db, week_start, now, created_at) ==
    Then(open_job_items(db), LAMBDA job_items :
      IF job_items = <<>>
      THEN [db |-> db,
            ret |-> [success |-> TRUE,
                     campaigns_created |-> 0,
                     schedule_days |-> 0]]
      ELSE
        Then(sort_campaigns(consolidate(db, job_items, <<>>, now), <<>>),
             LAMBDA campaigns_list :
          Then([db EXCEPT !.production_schedule_days =
                              delete_draft_days(@, week_start)],
               LAMBDA db1 :
            Then(allocate(campaigns_list, 1,
                          [i \in 0..(WindowDays - 1) |-> <<>>]),
                 LAMBDA daily_allocations :
              Then(create_campaign_records(db1, campaigns_list, created_at),
                   LAMBDA db2 :
                Then(create_schedule_days(db2, campaigns_list,
                         allocations_in_order(daily_allocations, 0),
                         week_start, created_at),
                     LAMBDA db3 :
                       [db |-> db3,
                        ret |-> [success |-> TRUE,
                                 campaigns_created |-> Len(campaigns_list),
                                 schedule_days_created |->
                                     Len(db3.production_schedule_days)
                                       - Len(db1.production_schedule_days)]]))))))

----------------------------------------------------------------------------
(* Schedule approval (server.py) *)

\* the reservations of one READY day, one per requirement record
RECURSIVE reserve_requirements(_, _, _, _)
reserve_requirements(db, day, requirements, created_at) ==
    IF requirements = <<>> THEN db
    ELSE
      LET req == Head(requirements)
          reservation == [id |-> db.next_id,
                          item_id |-> req.item_id,
                          ref_type |-> "SCHEDULE_DAY",
                          ref_id |-> day.id,
                          qty |-> req.required_qty,
                          created_at |-> created_at]
      IN  Then([db EXCEPT !.inventory_reservations = Append(@, reservation),
                          !.next_id = @ + 1],
               LAMBDA db1 :
                 reserve_requirements(db1, day, Tail(requirements),
                                      created_at))

\* variant: an approved day is marked APPROVED
set_day_approved(days, id) ==
    [i \in 1..Len(days) |->
        IF days[i].id = id THEN [days[i] EXCEPT !.status = "APPROVED"]
        ELSE days[i]]

\* update_one({id}, {$set: {status: READY}}): the first day with that id
set_day_ready(days, id) ==
    LET hits == {i \in 1..Len(days) : days[i].id = id}
    IN  IF hits = {} THEN days
        ELSE [days EXCEPT ![MinOf(hits)].status = "READY"]

RECURSIVE approve_days(_, _, _)
approve_days(db, ready_days, created_at) ==
    IF ready_days = <<>> THEN db
    ELSE
      LET day == Head(ready_days)
          requirements == find(db.production_day_requirements,
                               LAMBDA q : q.schedule_day_id = day.id)
      IN  Then(reserve_requirements(db, day, requirements, created_at),
               LAMBDA db1 :
                 Then([db1 EXCEPT !.production_schedule_days =
                                      set_day_ready(@, day.id)],
                      LAMBDA db2 :
                        approve_days(db2, Tail(ready_days), created_at)))

\* variant: the days of the week are approved whatever their status
days_of_week(db, week_start) ==
    find(db.production_schedule_days,
         LAMBDA d : d.week_start = week_start)

\* find({week_start, status: READY}) on production_schedule_days
ready_days_of(db, week_start) ==
    find(db.production_schedule_days,
         LAMBDA d : d.week_start = week_start /\ d.status = "READY")

approve_schedule(db, week_start, created_at) ==
    Then(ready_days_of(db, week_start), LAMBDA ready_days :
      Then(approve_days(db, ready_days, created_at), LAMBDA db1 :
        [db |-> db1,
         ret |-> [success |-> TRUE,
                  ready_days_approved |-> Len(ready_days),
                  reservations_created |->
                      Len(db1.inventory_reservations)
                        - Len(db.inventory_reservations)]]))

----------------------------------------------------------------------------
(* Procurement auto-demand (procurement_auto_demand.py) *)

\* update_one({id}, {$set: {qty}}): the first line with that id
set_line_qty(lines, id, qty) ==
    LET hits == {i \in 1..Len(lines) : lines[i].id = id}
    IN  IF hits = {} THEN lines
        ELSE [lines EXCEPT ![MinOf(hits)].qty = qty]

\* the for loop over the requirements with a shortage
RECURSIVE demand_lines(_, _, _)
demand_lines(db, pr, requirements) ==
    IF requirements = <<>> THEN db
    ELSE
      LET req == Head(requirements)
          schedule_day == find_one(db.production_schedule_days,
                              LAMBDA d : d.id = req.schedule_day_id)
          existing_line ==
              find_one(db.procurement_requisition_lines,
                  LAMBDA l : /\ l.pr_id = pr.id
                             /\ l.item_id = req.item_id
                             /\ l.linked_schedule_day_id = req.schedule_day_id)
          item == find_one(db.inventory_items,
                      LAMBDA it : it.id = req.item_id)
          line == [id |-> db.next_id,
                   pr_id |-> pr.id,
                   item_id |-> req.item_id,
                   item_type |-> req.item_type,
                   qty |-> req.shortage_qty,
                   uom |-> item.uom,
                   required_by |-> schedule_day.schedule_date,
                   linked_campaign_id |-> schedule_day.campaign_id,
                   linked_schedule_day_id |-> req.schedule_day_id]
      IN  Then(IF schedule_day = NoRow THEN db
               ELSE IF existing_line # NoRow
               THEN IF existing_line.qty < req.shortage_qty
                    THEN [db EXCEPT !.procurement_requisition_lines =
                            set_line_qty(@, existing_line.id,
                                         req.shortage_qty)]
                    ELSE db
               ELSE IF item = NoRow THEN db
               ELSE [db EXCEPT
                       !.procurement_requisition_lines = Append(@, line),
                       !.next_id = @ + 1],
               LAMBDA db1 : demand_lines(db1, pr, Tail(requirements)))

\* returns the store as the call leaves it and the summary it returns
generate_from_production_shortages(db) ==
    LET requirements == find(db.production_day_requirements,
                             LAMBDA q : q.shortage_qty > 0)
        found == find_one(db.procurement_requisitions,
                     LAMBDA r : r.status = "DRAFT")
        new_pr == [id |-> db.next_id, status |-> "DRAFT"]
        pr == IF found = NoRow THEN new_pr ELSE found
    IN  IF requirements = <<>>
        THEN [db |-> db,
              ret |-> [pr_id |-> None, lines_created |-> 0,
                       shortages_found |-> 0]]
        ELSE Then(demand_lines(IF found = NoRow
                               THEN [db EXCEPT
                                       !.procurement_requisitions =
                                           Append(@, new_pr),
                                       !.next_id = @ + 1]
                               ELSE db,
                               pr, requirements),
                  LAMBDA db1 :
                    [db |-> db1,
                     ret |-> [pr_id |-> pr.id,
                              lines_created |->
                                  Len(db1.procurement_requisition_lines)
                                    - Len(db.procurement_requisition_lines),
                              shortages_found |-> Len(requirements)]])

----------------------------------------------------------------------------
(* Formulation and packaging BOM management (server.py) *)

\* update_many({..., is_active: True}, {$set: {is_active: False}})
deactivate(boms, Match(_)) ==
    [i \in 1..Len(boms) |->
        IF Match(boms[i]) /\ boms[i].is_active
        THEN [boms[i] EXCEPT !.is_active = FALSE]
        ELSE boms[i]]

\* update_one({id}, {$set: {is_active: True}}): the first BOM with that id
activate(boms, bom_id) ==
    LET hits == {i \in 1..Len(boms) : boms[i].id = bom_id}
    IN  IF hits = {} THEN boms
        ELSE [boms EXCEPT ![MinOf(hits)].is_active = TRUE]

HTTPException(status_code) == [status_code |-> status_code]

\* variant: the active formulations of the product are left active
create_product_bom_keeping_siblings(db, role, data) ==
    IF role \notin {"admin", "production"}
    THEN [db |-> db, ret |-> HTTPException(403)]
    ELSE
      LET bom == [id |-> db.next_id,
                  product_id |-> data.product_id,
                  version |-> data.version,
                  is_active |-> data.is_active]
      IN  [db |-> [db EXCEPT !.product_boms = Append(@, bom),
                             !.next_id = @ + 1],
           ret |-> [status_code |-> 200, id |-> bom.id]]

\* POST /product-boms
create_product_bom(db, role, data) ==
    IF role \notin {"admin", "production"}
    THEN [db |-> db, ret |-> HTTPException(403)]
    ELSE
      LET siblings_off ==
              IF data.is_active
              THEN deactivate(db.product_boms,
                              LAMBDA b : b.product_id = data.product_id)
              ELSE db.product_boms
          bom == [id |-> db.next_id,
                  product_id |-> data.product_id,
                  version |-> data.version,
                  is_active |-> data.is_active]
      IN  [db |-> [db EXCEPT !.product_boms = Append(siblings_off, bom),
                             !.next_id = @ + 1],
           ret |-> [status_code |-> 200, id |-> bom.id]]

\* PUT /product-boms/{bom_id}/activate
activate_product_bom(db, role, bom_id) ==
    IF role \notin {"admin", "production"}
    THEN [db |-> db, ret |-> HTTPException(403)]
    ELSE
      LET bom == find_one(db.product_boms, LAMBDA b : b.id = bom_id)
      IN  IF bom = NoRow
          THEN [db |-> db, ret |-> HTTPException(404)]
          ELSE [db |-> [db EXCEPT !.product_boms =
                          activate(deactivate(@, LAMBDA b :
                                       b.product_id = bom.product_id),
                                   bom_id)],
                ret |-> [status_code |-> 200, id |-> bom_id]]

\* POST /packaging-boms
create_packaging_bom(db, role, data) ==
    IF role \notin {"admin", "inventory"}
    THEN [db |-> db, ret |-> HTTPException(403)]
    ELSE
      LET bom == [id |-> db.next_id,
                  packaging_id |-> data.packaging_id,
                  is_active |-> data.is_active]
      IN  [db |-> [db EXCEPT !.packaging_boms = Append(@, bom),
                             !.next_id = @ + 1],
           ret |-> [status_code |-> 200, id |-> bom.id]]

\* PUT /packaging-boms/{bom_id}/activate
activate_packaging_bom(db, role, bom_id) ==
    IF role \notin {"admin", "inventory"}
    THEN [db |-> db, ret |-> HTTPException(403)]
    ELSE
      LET bom == find_one(db.packaging_boms, LAMBDA b : b.id = bom_id)
      IN  IF bom = NoRow
          THEN [db |-> db, ret |-> HTTPException(404)]
          ELSE [db |-> [db EXCEPT !.packaging_boms =
                          activate(deactivate(@, LAMBDA b :
                                       b.packaging_id = bom.packaging_id),
                                   bom_id)],
                ret |-> [status_code |-> 200, id |-> bom_id]]

----------------------------------------------------------------------------
(* Unified production schedule (server.py).  The handler computes with the *)
(* job orders' quantity as it is stored, a binary64 float.  A float is     *)
(* modelled exactly as the integer hi * 2^30 + lo counting units of 2^-45  *)
(* drum; every float from 128 up to 2^15 drums is such an integer, and so  *)
(* is every sum or difference of two of them.  The display fields          *)
(* day_name, utilization, average_utilization, material_ready and          *)
(* shortage_items are left out.                                            *)

LimbBase == 2^30        \* lo ranges over 0..LimbBase - 1
UnitsPerDrum == 2^15    \* hi of one drum: 2^45 units
Binade128 == 2^22       \* hi of 128 drums, where one unit is one ulp

double_le(a, b) == a.hi < b.hi \/ (a.hi = b.hi /\ a.lo <= b.lo)

double_lt(a, b) == ~double_le(b, a)

\* the sum and the difference (a >= b) in exact arithmetic
exact_add(a, b) ==
    [hi |-> a.hi + b.hi + (a.lo + b.lo) \div LimbBase,
     lo |-> (a.lo + b.lo) % LimbBase]

exact_sub(a, b) ==
    IF a.lo >= b.lo
    THEN [hi |-> a.hi - b.hi, lo |-> a.lo - b.lo]
    ELSE [hi |-> a.hi - b.hi - 1, lo |-> a.lo + LimbBase - b.lo]

RECURSIVE pow2floor(_)
pow2floor(n) == IF n < 2 THEN 1 ELSE 2 * pow2floor(n \div 2)

\* the spacing, in units, of the floats in the binade of x (53-bit mantissa)
double_ulp(x) ==
    IF x.hi < Binade128 THEN 1 ELSE pow2floor(x.hi \div Binade128)

\* the float nearest to x + num/den units (0 <= num < den), ties to even
round_to_double(x, num, den) ==
    LET ulp == double_ulp(x)
        r == x.lo % ulp
        below == [hi |-> x.hi, lo |-> x.lo - r]
        above == exact_add(below, [hi |-> 0, lo |-> ulp])
        twice == 2 * (r * den + num)
        even == ((x.lo - r) \div ulp) % 2 = 0
    IN  IF twice < ulp * den \/ (twice = ulp * den /\ even)
        THEN below ELSE above

\* a + b and a - b (a >= b) on floats
double_add(a, b) == round_to_double(exact_add(a, b), 0, 1)

double_sub(a, b) == round_to_double(exact_sub(a, b), 0, 1)

int_to_double(n) == [hi |-> n * UnitsPerDrum, lo |-> 0]

\* the float a quantity given in tenths of a drum is stored as
\* (quantity: float of the request body); tenths is 0 or from 1280 upward
decimal_to_double(tenths) ==
    LET a == tenths * UnitsPerDrum
        r1 == a % 10
        m1 == (r1 * UnitsPerDrum) \div 10
        r2 == (r1 * UnitsPerDrum) % 10
        m2 == (r2 * UnitsPerDrum) \div 10
        r3 == (r2 * UnitsPerDrum) % 10
    IN  round_to_double([hi |-> a \div 10, lo |-> m1 * UnitsPerDrum + m2],
                        r3, 10)

RECURSIVE double_sum(_)
double_sum(seq) ==
    IF seq = <<>> THEN int_to_double(0)
    ELSE double_add(double_sum(SubSeq(seq, 1, Len(seq) - 1)), seq[Len(seq)])

DRUMS_PER_DAY == int_to_double(600)

\* the orders find(...).sort("delivery_date", 1) may return the documents
\* in: ascending by delivery date (None first), ties in any order
sorted_by_delivery_date(jobs) ==
    LET orders == {f \in [1..Len(jobs) -> 1..Len(jobs)] :
                      /\ \A i, j \in 1..Len(jobs) : f[i] = f[j] => i = j
                      /\ \A i, j \in 1..Len(jobs) :
                            i < j => jobs[f[i]].delivery_date
                                        <= jobs[f[j]].delivery_date}
    IN  {[i \in 1..Len(jobs) |-> jobs[f[i]]] : f \in orders}

\* list.remove(x): the list without its first element equal to x
list_remove(list, x) ==
    LET hits == {i \in 1..Len(list) : list[i] = x}
    IN  IF hits = {} THEN list
        ELSE SubSeq(list, 1, MinOf(hits) - 1)
               \o SubSeq(list, MinOf(hits) + 1, Len(list))

RECURSIVE remove_all(_, _)
remove_all(list, jobs_to_remove) ==
    IF jobs_to_remove = <<>> THEN list
    ELSE remove_all(list_remove(list, Head(jobs_to_remove)),
                    Tail(jobs_to_remove))

\* job["quantity"] = job_drums - partial_drums
split_job(job, partial_drums) ==
    [job EXCEPT !.quantity = double_sub(@, partial_drums)]

\* the entry of a job in the jobs of a day
job_entry(job, quantity, is_partial, total_quantity) ==
    [job_id |-> job.id,
     quantity |-> quantity,
     delivery_date |-> job.delivery_date,
     status |-> job.status,
     is_partial |-> is_partial,
     total_quantity |-> total_quantity]

\* the for loop over remaining_jobs of one day, from the n-th job on
RECURSIVE allocate_jobs_to_day(_, _, _, _)
allocate_jobs_to_day(remaining_jobs, n, day_schedule, jobs_to_remove) ==
    IF n > Len(remaining_jobs)
    THEN [remaining_jobs |-> remaining_jobs, day_schedule |-> day_schedule,
          jobs_to_remove |-> jobs_to_remove]
    ELSE
      LET job == remaining_jobs[n]
          job_drums == job.quantity
          partial_drums == day_schedule.drums_remaining
      IN  IF double_le(job_drums, day_schedule.drums_remaining)
          THEN allocate_jobs_to_day(remaining_jobs, n + 1,
                 [day_schedule EXCEPT
                    !.jobs = Append(@, job_entry(job, job_drums, FALSE, None)),
                    !.drums_scheduled = double_add(@, job_drums),
                    !.drums_remaining = double_sub(@, job_drums)],
                 Append(jobs_to_remove, job))
          ELSE IF double_lt(int_to_double(0), day_schedule.drums_remaining)
          THEN [remaining_jobs |->
                    [remaining_jobs EXCEPT
                       ![n] = split_job(job, partial_drums)],
                day_schedule |->
                    [day_schedule EXCEPT
                       !.jobs = Append(@, job_entry(job, partial_drums,
                                                    TRUE, job_drums)),
                       !.drums_scheduled = double_add(@, partial_drums),
                       !.drums_remaining = int_to_double(0)],
                jobs_to_remove |-> jobs_to_remove]
          ELSE allocate_jobs_to_day(remaining_jobs, n + 1, day_schedule,
                                    jobs_to_remove)

\* the for loop over range(days)
RECURSIVE build_schedule(_, _, _, _, _)
build_schedule(current_date, days, day_offset, remaining_jobs, schedule) ==
    IF day_offset >= days
    THEN [schedule |-> schedule, remaining_jobs |-> remaining_jobs]
    ELSE
      LET day_schedule == [date |-> current_date + day_offset,
                           drums_capacity |-> DRUMS_PER_DAY,
                           drums_scheduled |-> int_to_double(0),
                           drums_remaining |-> DRUMS_PER_DAY,
                           jobs |-> <<>>,
                           is_full |-> FALSE]
          day == allocate_jobs_to_day(remaining_jobs, 1, day_schedule, <<>>)
      IN  build_schedule(current_date, days, day_offset + 1,
              remove_all(day.remaining_jobs, day.jobs_to_remove),
              Append(schedule,
                     [day.day_schedule EXCEPT
                        !.is_full = day.day_schedule.drums_remaining
                                      = int_to_double(0)]))

\* GET /production/unified-schedule, for the order job_orders_found in
\* which the store returned the open job orders
get_unified_production_schedule(start_date, days, now, job_orders_found) ==
    LET built == build_schedule(IF start_date = None THEN now ELSE start_date,
                                days, 0, job_orders_found, <<>>)
        schedule == built.schedule
    IN  [schedule |-> schedule,
         summary |->
           [total_drums_scheduled |->
                double_sum(Column(schedule, LAMBDA d : d.drums_scheduled)),
            jobs_scheduled |->
                SumQty(Column(schedule, LAMBDA d : Len(d.jobs))),
            unscheduled_jobs |-> Len(built.remaining_jobs),
            days_with_capacity |->
                Len(SelectSeq(schedule, LAMBDA d : ~d.is_full))],
         constraints |-> [drums_per_day |-> DRUMS_PER_DAY]]

----------------------------------------------------------------------------
(* Reference data and inventory the scheduler is run against *)

SeedProducts ==
    << [id |-> "P1", type |-> "MANUFACTURED", density_kg_per_l |-> None],
       [id |-> "P2", type |-> "MANUFACTURED", density_kg_per_l |-> None],
       [id |-> "P3", type |-> "TRADED", density_kg_per_l |-> 1] >>

SeedPackaging ==
    << [id |-> "K1", net_weight_kg_default |-> 180, capacity_liters |-> 200],
       [id |-> "K2", net_weight_kg_default |-> None, capacity_liters |-> 200] >>

SeedSpecs ==
    << [id |-> "X1", product_id |-> "P1", packaging_id |-> "K1",
        net_weight_kg |-> 190] >>

SeedProductBoms ==
    << [id |-> "B1", product_id |-> "P1", version |-> 1, is_active |-> TRUE],
       [id |-> "B2", product_id |-> "P1", version |-> 2, is_active |-> FALSE],
       [id |-> "B3", product_id |-> "P2", version |-> 1, is_active |-> TRUE] >>

SeedProductBomItems ==
    << [id |-> "BI1", bom_id |-> "B1", material_item_id |-> "M1",
        qty_kg_per_kg_finished |-> 85],
       [id |-> "BI2", bom_id |-> "B2", material_item_id |-> "M1",
        qty_kg_per_kg_finished |-> 50] >>

SeedPackagingBoms ==
    << [id |-> "PB1", packaging_id |-> "K1", is_active |-> TRUE] >>

SeedPackagingBomItems ==
    << [id |-> "PI1", packaging_bom_id |-> "PB1", pack_item_id |-> "D1",
        qty_per_drum |-> 100] >>

SeedInventoryItems ==
    << [id |-> "M1", item_type |-> "RAW", uom |-> "KG"],
       [id |-> "D1", item_type |-> "PACK", uom |-> "EA"] >>

SeedBalances ==
    << [id |-> "IB1", item_id |-> "M1", on_hand |-> 1000000],
       [id |-> "IB2", item_id |-> "D1", on_hand |-> 50000] >>

SeedPurchaseOrders ==
    << [id |-> "PO1", status |-> "SENT"],
       [id |-> "PO2", status |-> "DRAFT"] >>

SeedPurchaseOrderLines ==
    << [id |-> "PL1", po_id |-> "PO1", item_id |-> "M1", qty |-> 200000,
        received_qty |-> 0, promised_delivery_date |-> 2],
       [id |-> "PL2", po_id |-> "PO2", item_id |-> "M1", qty |-> 500000,
        received_qty |-> 0, promised_delivery_date |-> 1],
       [id |-> "PL3", po_id |-> "PO1", item_id |-> "D1", qty |-> 10000,
        received_qty |-> 0, promised_delivery_date |-> None] >>

\* the job orders that may be in the store; quantity is in half drums
JobCatalog ==
    { [product_id |-> "P1", packaging_id |-> "K1", spec_id |-> NoneStr,
       bom_version |-> None, quantity |-> 20, delivery_date |-> 3,
       status |-> "pending", packaging_type |-> "DRUM"],
      [product_id |-> "P1", packaging_id |-> "K1", spec_id |-> "S1",
       bom_version |-> None, quantity |-> 800, delivery_date |-> 2,
       status |-> "pending", packaging_type |-> "DRUM"],
      [product_id |-> "P2", packaging_id |-> "K2", spec_id |-> NoneStr,
       bom_version |-> None, quantity |-> 600, delivery_date |-> 5,
       status |-> "in_production", packaging_type |-> "DRUM"],
      [product_id |-> "P2", packaging_id |-> "K1", spec_id |-> NoneStr,
       bom_version |-> None, quantity |-> 20, delivery_date |-> None,
       status |-> "pending", packaging_type |-> "DRUM"],
      [product_id |-> "P1", packaging_id |-> "K1", spec_id |-> NoneStr,
       bom_version |-> 2, quantity |-> 8601, delivery_date |-> 1,
       status |-> "pending", packaging_type |-> "DRUM"],
      [product_id |-> "P3", packaging_id |-> "K1", spec_id |-> NoneStr,
       bom_version |-> None, quantity |-> 200, delivery_date |-> 1,
       status |-> "pending", packaging_type |-> "DRUM"] }

----------------------------------------------------------------------------
(* The state machine *)

NoResult == [op |-> "none", week_start |-> None, ret |-> [success |-> TRUE]]

\* job_orders as stored: the chosen job orders in insertion order, with ids
StoredJobOrders(jobs) ==
    [i \in 1..Len(jobs) |->
        [id |-> i,
         product_id |-> jobs[i].product_id,
         packaging_id |-> jobs[i].packaging_id,
         spec_id |-> jobs[i].spec_id,
         bom_version |-> jobs[i].bom_version,
         quantity |-> jobs[i].quantity,
         delivery_date |-> jobs[i].delivery_date,
         status |-> jobs[i].status,
         packaging_type |-> jobs[i].packaging_type]]

Init ==
    /\ products = SeedProducts
    /\ packaging = SeedPackaging
    /\ product_packaging_specs = SeedSpecs
    /\ product_boms = SeedProductBoms
    /\ product_bom_items = SeedProductBomItems
    /\ packaging_boms = SeedPackagingBoms
    /\ packaging_bom_items = SeedPackagingBomItems
    /\ inventory_items = SeedInventoryItems
    /\ inventory_balances = SeedBalances
    /\ inventory_reservations = <<>>
    /\ purchase_orders = SeedPurchaseOrders
    /\ purchase_order_lines = SeedPurchaseOrderLines
    /\ job_orders \in {StoredJobOrders(jobs) :
                          jobs \in SeqsUpTo(JobCatalog, MaxJobs)}
    /\ production_campaigns = <<>>
    /\ production_campaign_job_links = <<>>
    /\ production_schedule_days = <<>>
    /\ production_day_requirements = <<>>
    /\ procurement_requisitions = <<>>
    /\ procurement_requisition_lines = <<>>
    /\ next_id = Len(job_orders) + 1
    /\ calls = [regenerate_schedule |-> 0, approve_schedule |-> 0,
                generate_from_production_shortages |-> 0]
    /\ result = NoResult

\* the handler calls made so far
CallsMade == calls.regenerate_schedule + calls.approve_schedule
                 + calls.generate_from_production_shortages

\* the timestamp of datetime.now() in the next handler call
Stamp == CallsMade + 1

\* POST /production/drum-schedule/regenerate
Regenerate(week_start) ==
    /\ CallsMade < MaxCalls
    /\ \E out \in {regenerate_schedule(DB, week_start, Today, Stamp)} :
           /\ Commit(out.db)
           /\ result' = [op |-> "regenerate_schedule",
                         week_start |-> week_start, ret |-> out.ret]
    /\ calls' = [calls EXCEPT !.regenerate_schedule = @ + 1]

\* POST /production/schedule/approve
Approve(week_start) ==
    /\ CallsMade < MaxCalls
    /\ \E out \in {approve_schedule(DB, week_start, Stamp)} :
           /\ Commit(out.db)
           /\ result' = [op |-> "approve_schedule",
                         week_start |-> week_start, ret |-> out.ret]
    /\ calls' = [calls EXCEPT !.approve_schedule = @ + 1]

Next ==
    \/ \E week_start \in WeekStarts : Regenerate(week_start)
    \/ \E week_start \in WeekStarts : Approve(week_start)

Spec == Init /\ [][Next]_vars

----------------------------------------------------------------------------
(* The Conversion Resolver on its own: get_net_weight_kg applied to every  *)
(* configuration of specs, packaging and product within the bounds         *)

MaxSpecs == 2         \* stored product-packaging specs

ConvSpecRows ==
    {[id |-> "X", product_id |-> p, packaging_id |-> "K1", net_weight_kg |-> w] :
        p \in {"P1", "P2"}, w \in {None, 0, 190, 195}}

ConvPackaging ==
    {<<>>} \cup
    {<<[id |-> "K1", net_weight_kg_default |-> w, capacity_liters |-> l]>> :
        w \in {None, 0, 180}, l \in {None, 0, 200}}

ConvProducts ==
    {<<>>} \cup
    {<<[id |-> "P1", type |-> "MANUFACTURED", density_kg_per_l |-> d]>> :
        d \in {None, 0, 2}}

InitConv ==
    /\ products \in ConvProducts
    /\ packaging \in ConvPackaging
    /\ product_packaging_specs \in SeqsUpTo(ConvSpecRows, MaxSpecs)
    /\ product_boms = <<>>
    /\ product_bom_items = <<>>
    /\ packaging_boms = <<>>
    /\ packaging_bom_items = <<>>
    /\ inventory_items = <<>>
    /\ inventory_balances = <<>>
    /\ inventory_reservations = <<>>
    /\ purchase_orders = <<>>
    /\ purchase_order_lines = <<>>
    /\ job_orders = <<>>
    /\ production_campaigns = <<>>
    /\ production_campaign_job_links = <<>>
    /\ production_schedule_days = <<>>
    /\ production_day_requirements = <<>>
    /\ procurement_requisitions = <<>>
    /\ procurement_requisition_lines = <<>>
    /\ next_id = 1
    /\ calls = [regenerate_schedule |-> 0, approve_schedule |-> 0,
                generate_from_production_shortages |-> 0]
    /\ result = NoResult

\* a call of scheduler.get_net_weight_kg
ResolveNetWeight(product_id, packaging_id) ==
    /\ result' = [op |-> "get_net_weight_kg", week_start |-> None,
                  ret |-> [product_id |-> product_id,
                           packaging_id |-> packaging_id,
                           value |-> get_net_weight_kg(DB, product_id,
                                                       packaging_id)]]
    /\ Commit(DB)
    /\ UNCHANGED calls

NextConv == \E product_id \in {"P1", "P2"} :
                ResolveNetWeight(product_id, "K1")

SpecConv == InitConv /\ [][NextConv]_vars

----------------------------------------------------------------------------
(* The scheduler run against every inventory snapshot within the bounds:   *)
(* balances, purchase orders in every status, promised dates before and    *)
(* after the schedule dates, a packaging BOM that is active or not         *)

InvBalances ==
    {m \o d : m \in {<<>>, <<[id |-> "IB1", item_id |-> "M1",
                              on_hand |-> 1000000]>>},
              d \in {<<[id |-> "IB2", item_id |-> "D1", on_hand |-> 500]>>,
                     <<[id |-> "IB2", item_id |-> "D1", on_hand |-> 50000]>>}}

\* the order of the inbound line, with what has been received of the line
InvOrderStates ==
    {[status |-> "DRAFT", received_qty |-> 0],
     [status |-> "APPROVED", received_qty |-> 0],
     [status |-> "SENT", received_qty |-> 0],
     [status |-> "PARTIAL", received_qty |-> 50000],
     [status |-> "RECEIVED", received_qty |-> 200000]}

InvPromisedDates == {None, 2, 9}

InvPackagingBoms ==
    {<<[id |-> "PB1", packaging_id |-> "K1", is_active |-> active]>> :
        active \in BOOLEAN}

\* two open job orders of one product and packaging: 10 and 400 drums
InvJobs ==
    << [product_id |-> "P1", packaging_id |-> "K1", spec_id |-> NoneStr,
        bom_version |-> None, quantity |-> 20, delivery_date |-> 3,
        status |-> "pending", packaging_type |-> "DRUM"],
       [product_id |-> "P1", packaging_id |-> "K1", spec_id |-> "S1",
        bom_version |-> None, quantity |-> 800, delivery_date |-> 2,
        status |-> "pending", packaging_type |-> "DRUM"] >>

InitInv ==
    /\ products = SeedProducts
    /\ packaging = SeedPackaging
    /\ product_packaging_specs = SeedSpecs
    /\ product_boms = SeedProductBoms
    /\ product_bom_items = SeedProductBomItems
    /\ packaging_boms \in InvPackagingBoms
    /\ packaging_bom_items = SeedPackagingBomItems
    /\ inventory_items = SeedInventoryItems
    /\ inventory_balances \in InvBalances
    /\ inventory_reservations = <<>>
    /\ \E order \in InvOrderStates, promised \in InvPromisedDates :
          /\ purchase_orders = <<[id |-> "PO1", status |-> order.status]>>
          /\ purchase_order_lines =
                <<[id |-> "PL1", po_id |-> "PO1", item_id |-> "M1",
                   qty |-> 200000, received_qty |-> order.received_qty,
                   promised_delivery_date |-> promised]>>
    /\ job_orders = StoredJobOrders(InvJobs)
    /\ production_campaigns = <<>>
    /\ production_campaign_job_links = <<>>
    /\ production_schedule_days = <<>>
    /\ production_day_requirements = <<>>
    /\ procurement_requisitions = <<>>
    /\ procurement_requisition_lines = <<>>
    /\ next_id = Len(job_orders) + 1
    /\ calls = [regenerate_schedule |-> 0, approve_schedule |-> 0,
                generate_from_production_shortages |-> 0]
    /\ result = NoResult

SpecInv == InitInv /\ [][Next]_vars

----------------------------------------------------------------------------
(* The scheduler and the procurement auto-demand run one after the other,  *)
(* over stores with no, a closed, or a closed and a DRAFT requisition, and *)
(* with a formulation that lists one material twice                        *)

ProcBomItems ==
    << [id |-> "BI1", bom_id |-> "B1", material_item_id |-> "M1",
        qty_kg_per_kg_finished |-> 85],
       [id |-> "BI2", bom_id |-> "B2", material_item_id |-> "M1",
        qty_kg_per_kg_finished |-> 50],
       [id |-> "BI3", bom_id |-> "B2", material_item_id |-> "M1",
        qty_kg_per_kg_finished |-> 85] >>

\* identifiers of requisitions that exist before the first call
ProcRequisitions ==
    { <<>>,
      <<[id |-> 9001, status |-> "APPROVED"]>>,
      <<[id |-> 9001, status |-> "APPROVED"],
        [id |-> 9002, status |-> "DRAFT"]>> }

\* quantity is in half drums: 10, 400 and 650 drums
ProcCatalog ==
    { [product_id |-> "P1", packaging_id |-> "K1", spec_id |-> NoneStr,
       bom_version |-> None, quantity |-> 20, delivery_date |-> 3,
       status |-> "pending", packaging_type |-> "DRUM"],
      [product_id |-> "P1", packaging_id |-> "K1", spec_id |-> "S1",
       bom_version |-> None, quantity |-> 800, delivery_date |-> 2,
       status |-> "pending", packaging_type |-> "DRUM"],
      [product_id |-> "P1", packaging_id |-> "K1", spec_id |-> NoneStr,
       bom_version |-> 2, quantity |-> 1300, delivery_date |-> 1,
       status |-> "pending", packaging_type |-> "DRUM"] }

InitProc ==
    /\ products = SeedProducts
    /\ packaging = SeedPackaging
    /\ product_packaging_specs = SeedSpecs
    /\ product_boms = SeedProductBoms
    /\ product_bom_items = ProcBomItems
    /\ packaging_boms = SeedPackagingBoms
    /\ packaging_bom_items = SeedPackagingBomItems
    /\ inventory_items = SeedInventoryItems
    /\ inventory_balances = SeedBalances
    /\ inventory_reservations = <<>>
    /\ purchase_orders = SeedPurchaseOrders
    /\ purchase_order_lines = SeedPurchaseOrderLines
    /\ job_orders \in {StoredJobOrders(jobs) :
                          jobs \in SeqsUpTo(ProcCatalog, MaxJobs)}
    /\ production_campaigns = <<>>
    /\ production_campaign_job_links = <<>>
    /\ production_schedule_days = <<>>
    /\ production_day_requirements = <<>>
    /\ procurement_requisitions \in ProcRequisitions
    /\ procurement_requisition_lines = <<>>
    /\ next_id = Len(job_orders) + 1
    /\ calls = [regenerate_schedule |-> 0, approve_schedule |-> 0,
                generate_from_production_shortages |-> 0]
    /\ result = NoResult

\* ProcurementAutoDemand(db).generate_from_production_shortages()
GenerateFromShortages ==
    /\ CallsMade < MaxCalls
    /\ \E out \in {generate_from_production_shortages(DB)} :
           /\ Commit(out.db)
           /\ result' = [op |-> "generate_from_production_shortages",
                         week_start |-> None, ret |-> out.ret]
    /\ calls' = [calls EXCEPT !.generate_from_production_shortages = @ + 1]

NextProc ==
    \/ \E week_start \in WeekStarts : Regenerate(week_start)
    \/ GenerateFromShortages

SpecProc == InitProc /\ [][NextProc]_vars

----------------------------------------------------------------------------
(* Regeneration over every demand within the bounds: lines that share a    *)
(* consolidation key or differ in one of its fields, lines with a          *)
(* fraction of a drum or without a delivery date, lines that pin a         *)
(* version, and lines whose formulation cannot be resolved                 *)

\* P4 is manufactured and has a formulation, which is not active
DemandProducts ==
    SeedProducts \o
    << [id |-> "P4", type |-> "MANUFACTURED", density_kg_per_l |-> None] >>

DemandProductBoms ==
    SeedProductBoms \o
    << [id |-> "B4", product_id |-> "P4", version |-> 1, is_active |-> FALSE] >>

\* quantity is in half drums
DemandCatalog ==
    { [product_id |-> "P1", packaging_id |-> "K1", spec_id |-> NoneStr,
       bom_version |-> None, quantity |-> 20, delivery_date |-> 9,
       status |-> "pending", packaging_type |-> "DRUM"],
      [product_id |-> "P1", packaging_id |-> "K1", spec_id |-> NoneStr,
       bom_version |-> None, quantity |-> 21, delivery_date |-> None,
       status |-> "pending", packaging_type |-> "DRUM"],
      [product_id |-> "P1", packaging_id |-> "K1", spec_id |-> "S1",
       bom_version |-> None, quantity |-> 800, delivery_date |-> 2,
       status |-> "pending", packaging_type |-> "DRUM"],
      [product_id |-> "P1", packaging_id |-> "K2", spec_id |-> NoneStr,
       bom_version |-> None, quantity |-> 20, delivery_date |-> 3,
       status |-> "in_production", packaging_type |-> "DRUM"],
      [product_id |-> "P1", packaging_id |-> "K1", spec_id |-> NoneStr,
       bom_version |-> 2, quantity |-> 40, delivery_date |-> 1,
       status |-> "pending", packaging_type |-> "DRUM"],
      [product_id |-> "P1", packaging_id |-> "K1", spec_id |-> NoneStr,
       bom_version |-> 3, quantity |-> 60, delivery_date |-> 1,
       status |-> "pending", packaging_type |-> "DRUM"],
      [product_id |-> "P4", packaging_id |-> "K1", spec_id |-> NoneStr,
       bom_version |-> None, quantity |-> 80, delivery_date |-> 1,
       status |-> "pending", packaging_type |-> "DRUM"] }

InitDemand ==
    /\ products = DemandProducts
    /\ packaging = SeedPackaging
    /\ product_packaging_specs = SeedSpecs
    /\ product_boms = DemandProductBoms
    /\ product_bom_items = SeedProductBomItems
    /\ packaging_boms = SeedPackagingBoms
    /\ packaging_bom_items = SeedPackagingBomItems
    /\ inventory_items = SeedInventoryItems
    /\ inventory_balances = SeedBalances
    /\ inventory_reservations = <<>>
    /\ purchase_orders = SeedPurchaseOrders
    /\ purchase_order_lines = SeedPurchaseOrderLines
    /\ job_orders \in {StoredJobOrders(jobs) :
                          jobs \in SeqsUpTo(DemandCatalog, MaxJobs)}
    /\ production_campaigns = <<>>
    /\ production_campaign_job_links = <<>>
    /\ production_schedule_days = <<>>
    /\ production_day_requirements = <<>>
    /\ procurement_requisitions = <<>>
    /\ procurement_requisition_lines = <<>>
    /\ next_id = Len(job_orders) + 1
    /\ calls = [regenerate_schedule |-> 0, approve_schedule |-> 0,
                generate_from_production_shortages |-> 0]
    /\ result = NoResult

NextDemand == \E week_start \in WeekStarts : Regenerate(week_start)

SpecDemand == InitDemand /\ [][NextDemand]_vars

----------------------------------------------------------------------------
(* Regeneration over demands that exercise the allocator: campaigns of     *)
(* 400, 300 and 1 drums, a campaign of no whole drum, a campaign larger    *)
(* than the window, equal due dates, and a campaign without a due date     *)

MaxAllocJobs == 3     \* job orders in the store
MaxRuns == 2          \* regenerations made

\* quantity is in half drums
AllocCatalog ==
    { [product_id |-> "P1", packaging_id |-> "K1", spec_id |-> NoneStr,
       bom_version |-> None, quantity |-> 800, delivery_date |-> 1,
       status |-> "pending", packaging_type |-> "DRUM"],
      [product_id |-> "P1", packaging_id |-> "K1", spec_id |-> "S1",
       bom_version |-> None, quantity |-> 600, delivery_date |-> 2,
       status |-> "pending", packaging_type |-> "DRUM"],
      [product_id |-> "P1", packaging_id |-> "K1", spec_id |-> "S2",
       bom_version |-> None, quantity |-> 2, delivery_date |-> 3,
       status |-> "pending", packaging_type |-> "DRUM"],
      [product_id |-> "P1", packaging_id |-> "K2", spec_id |-> NoneStr,
       bom_version |-> None, quantity |-> 1, delivery_date |-> 1,
       status |-> "pending", packaging_type |-> "DRUM"],
      [product_id |-> "P1", packaging_id |-> "K1", spec_id |-> "S3",
       bom_version |-> None, quantity |-> 8602, delivery_date |-> 2,
       status |-> "in_production", packaging_type |-> "DRUM"],
      [product_id |-> "P2", packaging_id |-> "K1", spec_id |-> NoneStr,
       bom_version |-> None, quantity |-> 1200, delivery_date |-> None,
       status |-> "pending", packaging_type |-> "DRUM"],
      [product_id |-> "P1", packaging_id |-> "K1", spec_id |-> "S4",
       bom_version |-> None, quantity |-> 800, delivery_date |-> 9,
       status |-> "pending", packaging_type |-> "DRUM"] }

InitAlloc ==
    /\ products = SeedProducts
    /\ packaging = SeedPackaging
    /\ product_packaging_specs = SeedSpecs
    /\ product_boms = SeedProductBoms
    /\ product_bom_items = SeedProductBomItems
    /\ packaging_boms = SeedPackagingBoms
    /\ packaging_bom_items = SeedPackagingBomItems
    /\ inventory_items = SeedInventoryItems
    /\ inventory_balances = SeedBalances
    /\ inventory_reservations = <<>>
    /\ purchase_orders = SeedPurchaseOrders
    /\ purchase_order_lines = SeedPurchaseOrderLines
    /\ job_orders \in {StoredJobOrders(jobs) :
                          jobs \in SeqsUpTo(AllocCatalog, MaxAllocJobs)}
    /\ production_campaigns = <<>>
    /\ production_campaign_job_links = <<>>
    /\ production_schedule_days = <<>>
    /\ production_day_requirements = <<>>
    /\ procurement_requisitions = <<>>
    /\ procurement_requisition_lines = <<>>
    /\ next_id = Len(job_orders) + 1
    /\ calls = [regenerate_schedule |-> 0, approve_schedule |-> 0,
                generate_from_production_shortages |-> 0]
    /\ result = NoResult

NextAlloc ==
    /\ calls.regenerate_schedule < MaxRuns
    /\ \E week_start \in WeekStarts : Regenerate(week_start)

SpecAlloc == InitAlloc /\ [][NextAlloc]_vars

----------------------------------------------------------------------------
(* The capacity allocation loop of regenerate_schedule step by step: the   *)
(* locals of Step 4 are kept in result.ret, `at` is the place in the code  *)

MaxLoopJobs == 3      \* job orders in the store

\* campaigns of no whole drum, of 1 drum, of 400 drums and of more drums
\* than the window holds; quantity is in half drums
LoopCatalog ==
    {j \in AllocCatalog : j.quantity \in {1, 2, 8602} \/ j.delivery_date = 1}

InitLoop ==
    /\ products = SeedProducts
    /\ packaging = SeedPackaging
    /\ product_packaging_specs = SeedSpecs
    /\ product_boms = SeedProductBoms
    /\ product_bom_items = SeedProductBomItems
    /\ packaging_boms = SeedPackagingBoms
    /\ packaging_bom_items = SeedPackagingBomItems
    /\ inventory_items = SeedInventoryItems
    /\ inventory_balances = SeedBalances
    /\ inventory_reservations = <<>>
    /\ purchase_orders = SeedPurchaseOrders
    /\ purchase_order_lines = SeedPurchaseOrderLines
    /\ job_orders \in {StoredJobOrders(jobs) :
                          jobs \in SeqsUpTo(LoopCatalog, MaxLoopJobs)}
    /\ production_campaigns = <<>>
    /\ production_campaign_job_links = <<>>
    /\ production_schedule_days = <<>>
    /\ production_day_requirements = <<>>
    /\ procurement_requisitions = <<>>
    /\ procurement_requisition_lines = <<>>
    /\ next_id = Len(job_orders) + 1
    /\ calls = [regenerate_schedule |-> 0, approve_schedule |-> 0,
                generate_from_production_shortages |-> 0]
    /\ result = NoResult

\* Steps 1 to 3 and the entry into the for loop of Step 4
EnterAllocation ==
    /\ result.op = "none"
    /\ \E campaigns_list \in
             {sort_campaigns(consolidate(DB, open_job_items(DB), <<>>, Today),
                             <<>>)} :
          result' =
            [op |-> "allocation", week_start |-> None,
             ret |-> [campaigns_list |->
                          Column(campaigns_list, LAMBDA c : c.total_drums),
                      campaign |-> 1,
                      remaining_drums |->
                          IF campaigns_list = <<>> THEN 0
                          ELSE campaigns_list[1].total_drums,
                      day_offset |-> 0,
                      daily_allocations |->
                          [i \in 0..(WindowDays - 1) |-> <<>>],
                      at |-> IF campaigns_list = <<>> THEN "done"
                             ELSE "while"]]
    /\ Commit(DB)
    /\ UNCHANGED calls

\* the condition of the while loop
LoopCondition ==
    result.ret.remaining_drums > 0 /\ result.ret.day_offset < WindowDays

\* one pass through the body of the while loop
WhileIteration ==
    /\ result.op = "allocation"
    /\ result.ret.at = "while"
    /\ LoopCondition
    /\ \E next \in {allocate_iteration(result.ret.daily_allocations,
                                       result.ret.campaign,
                                       result.ret.remaining_drums,
                                       result.ret.day_offset)} :
          result' = [result EXCEPT !.ret.daily_allocations = next[1],
                                   !.ret.remaining_drums = next[2],
                                   !.ret.day_offset = next[3]]
    /\ Commit(DB)
    /\ UNCHANGED calls

\* the while loop is left: the for loop takes the next campaign or ends
NextCampaign ==
    /\ result.op = "allocation"
    /\ result.ret.at = "while"
    /\ ~LoopCondition
    /\ result' =
         IF result.ret.campaign < Len(result.ret.campaigns_list)
         THEN [result EXCEPT
                 !.ret.campaign = @ + 1,
                 !.ret.remaining_drums =
                     result.ret.campaigns_list[result.ret.campaign + 1],
                 !.ret.day_offset = 0]
         ELSE [result EXCEPT !.ret.at = "done"]
    /\ Commit(DB)
    /\ UNCHANGED calls

NextLoop == EnterAllocation \/ WhileIteration \/ NextCampaign

\* the handler runs on: a step that can be taken is taken
SpecLoop == InitLoop /\ [][NextLoop]_vars /\ WF_vars(NextLoop)

----------------------------------------------------------------------------
(* BOM management on its own: formulations and packaging BOMs are created  *)
(* and activated, one request after the other, starting with none stored   *)

MaxBoms == 3          \* BOMs stored in a collection

Roles == {"admin", "production", "inventory"}

ProductBOMCreate ==
    [product_id : {"P1", "P2"}, version : {1, 2}, is_active : BOOLEAN]

PackagingBOMCreate ==
    [packaging_id : {"K1", "K2"}, is_active : BOOLEAN]

\* the ids a request may name: those handed out so far and one more
BomIds == 1..(MaxBoms + 1)

InitBom ==
    /\ products = <<>>
    /\ packaging = <<>>
    /\ product_packaging_specs = <<>>
    /\ product_boms = <<>>
    /\ product_bom_items = <<>>
    /\ packaging_boms = <<>>
    /\ packaging_bom_items = <<>>
    /\ inventory_items = <<>>
    /\ inventory_balances = <<>>
    /\ inventory_reservations = <<>>
    /\ purchase_orders = <<>>
    /\ purchase_order_lines = <<>>
    /\ job_orders = <<>>
    /\ production_campaigns = <<>>
    /\ production_campaign_job_links = <<>>
    /\ production_schedule_days = <<>>
    /\ production_day_requirements = <<>>
    /\ procurement_requisitions = <<>>
    /\ procurement_requisition_lines = <<>>
    /\ next_id = 1
    /\ calls = [regenerate_schedule |-> 0, approve_schedule |-> 0,
                generate_from_production_shortages |-> 0]
    /\ result = NoResult

\* the handler's writes to the BOM collections become the next state
CommitBoms(db) ==
    /\ product_boms' = db.product_boms
    /\ packaging_boms' = db.packaging_boms
    /\ next_id' = db.next_id
    /\ UNCHANGED <<products, packaging, product_packaging_specs,
                   product_bom_items, packaging_bom_items, inventory_items,
                   inventory_balances, inventory_reservations,
                   purchase_orders, purchase_order_lines, job_orders,
                   production_campaigns, production_campaign_job_links,
                   production_schedule_days, production_day_requirements,
                   procurement_requisitions, procurement_requisition_lines,
                   calls>>

CreateProductBom(role, data) ==
    /\ Len(product_boms) < MaxBoms
    /\ \E out \in {create_product_bom(DB, role, data)} :
          /\ CommitBoms(out.db)
          /\ result' = [op |-> "create_product_bom", week_start |-> None,
                        ret |-> out.ret]

ActivateProductBom(role, bom_id) ==
    \E out \in {activate_product_bom(DB, role, bom_id)} :
        /\ CommitBoms(out.db)
        /\ result' = [op |-> "activate_product_bom", week_start |-> None,
                      ret |-> out.ret]

CreatePackagingBom(role, data) ==
    /\ Len(packaging_boms) < MaxBoms
    /\ \E out \in {create_packaging_bom(DB, role, data)} :
          /\ CommitBoms(out.db)
          /\ result' = [op |-> "create_packaging_bom", week_start |-> None,
                        ret |-> out.ret]

ActivatePackagingBom(role, bom_id) ==
    \E out \in {activate_packaging_bom(DB, role, bom_id)} :
        /\ CommitBoms(out.db)
        /\ result' = [op |-> "activate_packaging_bom", week_start |-> None,
                      ret |-> out.ret]

NextProductBom ==
    \/ \E role \in Roles, data \in ProductBOMCreate :
          CreateProductBom(role, data)
    \/ \E role \in Roles, bom_id \in BomIds :
          ActivateProductBom(role, bom_id)

SpecProductBom == InitBom /\ [][NextProductBom]_vars

NextPackagingBom ==
    \/ \E role \in Roles, data \in PackagingBOMCreate :
          CreatePackagingBom(role, data)
    \/ \E role \in Roles, bom_id \in BomIds :
          ActivatePackagingBom(role, bom_id)

SpecPackagingBom == InitBom /\ [][NextPackagingBom]_vars

----------------------------------------------------------------------------
(* The unified production schedule on its own, requested for every store   *)
(* of job orders and every number of days within the bounds                *)

MaxUnifiedJobs == 3   \* job orders in the store
MaxDays == 3          \* days requested

\* job orders with their quantity given in tenths of a drum
UnifiedCatalog ==
    { [product_id |-> "P1", packaging_id |-> "K1", spec_id |-> NoneStr,
       bom_version |-> None, quantity |-> decimal_to_double(j.tenths),
       delivery_date |-> j.delivery_date, status |-> j.status,
       packaging_type |-> "DRUM"] :
          j \in { [tenths |-> 0, delivery_date |-> 2, status |-> "pending"],
                  [tenths |-> 2505, delivery_date |-> None,
                   status |-> "approved"],
                  [tenths |-> 4703, delivery_date |-> 1,
                   status |-> "pending"],
                  [tenths |-> 6000, delivery_date |-> 1,
                   status |-> "in_production"],
                  [tenths |-> 6629, delivery_date |-> 2,
                   status |-> "pending"],
                  [tenths |-> 15000, delivery_date |-> 3,
                   status |-> "pending"],
                  [tenths |-> 4000, delivery_date |-> 1,
                   status |-> "completed"] } }

InitUnified ==
    /\ products = SeedProducts
    /\ packaging = SeedPackaging
    /\ product_packaging_specs = SeedSpecs
    /\ product_boms = SeedProductBoms
    /\ product_bom_items = SeedProductBomItems
    /\ packaging_boms = SeedPackagingBoms
    /\ packaging_bom_items = SeedPackagingBomItems
    /\ inventory_items = SeedInventoryItems
    /\ inventory_balances = SeedBalances
    /\ inventory_reservations = <<>>
    /\ purchase_orders = SeedPurchaseOrders
    /\ purchase_order_lines = SeedPurchaseOrderLines
    /\ job_orders \in {StoredJobOrders(jobs) :
                          jobs \in SeqsUpTo(UnifiedCatalog, MaxUnifiedJobs)}
    /\ production_campaigns = <<>>
    /\ production_campaign_job_links = <<>>
    /\ production_schedule_days = <<>>
    /\ production_day_requirements = <<>>
    /\ procurement_requisitions = <<>>
    /\ procurement_requisition_lines = <<>>
    /\ next_id = Len(job_orders) + 1
    /\ calls = [regenerate_schedule |-> 0, approve_schedule |-> 0,
                generate_from_production_shortages |-> 0]
    /\ result = NoResult

\* the job orders the handler's query selects
unified_open_jobs(db) ==
    find(db.job_orders,
         LAMBDA j : j.status \in {"pending", "approved", "in_production"})

\* one request per behaviour: the handler writes nothing, a second request
\* would find the same store
GetUnifiedSchedule(start_date, days) ==
    /\ result = NoResult
    /\ \E job_orders_found \in sorted_by_delivery_date(unified_open_jobs(DB)) :
          \E out \in {get_unified_production_schedule(start_date, days, Today,
                                                      job_orders_found)} :
              result' = [op |-> "get_unified_production_schedule",
                         week_start |-> start_date,
                         ret |-> [days |-> days, response |-> out]]
    /\ Commit(DB)
    /\ UNCHANGED calls

NextUnified ==
    \E start_date \in {None, 0}, days \in 0..MaxDays :
        GetUnifiedSchedule(start_date, days)

SpecUnified == InitUnified /\ [][NextUnified]_vars

----------------------------------------------------------------------------
(* Vocabulary of the properties *)

Indices(coll) == 1..Len(coll)

\* the step is a call of the handler
IsRegenerateStep == calls'.regenerate_schedule = calls.regenerate_schedule + 1
IsApproveStep == calls'.approve_schedule = calls.approve_schedule + 1

\* the planned drums of the stored schedule days that satisfy Match
PlannedDrums(Match(_)) ==
    SumQty(Column(find(production_schedule_days, Match),
                  LAMBDA d : d.planned_drums))

\* the consolidation key of the stored campaign with the given id
CampaignKeyById(id) ==
    LET at == {i \in Indices(production_campaigns) :
                  production_campaigns[i].id = id}
    IN  IF at = {} THEN NoRow ELSE KeyOf(production_campaigns[MinOf(at)])

\* the stored rows without their generated identifiers and timestamps
CampaignAggregates ==
    {[key |-> KeyOf(c), total_drums |-> c.total_drums,
      earliest_due_date |-> c.earliest_due_date] :
        c \in Range(production_campaigns)}

DayFacts(d) ==
    [week_start |-> d.week_start, schedule_date |-> d.schedule_date,
     campaign |-> CampaignKeyById(d.campaign_id),
     planned_drums |-> d.planned_drums, status |-> d.status,
     blocking_reason |-> d.blocking_reason]

DayRows == {DayFacts(d) : d \in Range(production_schedule_days)}

RequirementRows ==
    {[day |-> {DayFacts(d) : d \in {x \in Range(production_schedule_days) :
                                       x.id = q.schedule_day_id}},
      item_id |-> q.item_id, item_type |-> q.item_type,
      required_qty |-> q.required_qty,
      available_qty_snapshot |-> q.available_qty_snapshot,
      shortage_qty |-> q.shortage_qty] :
        q \in Range(production_day_requirements)}

ReservationRows ==
    {[item_id |-> r.item_id, ref_type |-> r.ref_type, ref_id |-> r.ref_id,
      qty |-> r.qty] : r \in Range(inventory_reservations)}

\* no net weight can be resolved for the pair: the first stored spec of
\* the pair (if any) carries no usable weight, the packaging has no usable
\* default, and its capacity or the product's density is not usable
SpecWeightOf(product_id, packaging_id) ==
    LET at == {i \in Indices(product_packaging_specs) :
                  /\ product_packaging_specs[i].product_id = product_id
                  /\ product_packaging_specs[i].packaging_id = packaging_id}
    IN  IF at = {} THEN None
        ELSE product_packaging_specs[MinOf(at)].net_weight_kg

PackagingFieldOf(packaging_id, Field(_)) ==
    LET at == {i \in Indices(packaging) : packaging[i].id = packaging_id}
    IN  IF at = {} THEN None ELSE Field(packaging[MinOf(at)])

DensityOf(product_id) ==
    LET at == {i \in Indices(products) : products[i].id = product_id}
    IN  IF at = {} THEN None ELSE products[MinOf(at)].density_kg_per_l

Usable(x) == x \notin {None, 0}

NoConversion(product_id, packaging_id) ==
    /\ ~Usable(SpecWeightOf(product_id, packaging_id))
    /\ ~Usable(PackagingFieldOf(packaging_id,
                                LAMBDA k : k.net_weight_kg_default))
    /\ \/ ~Usable(PackagingFieldOf(packaging_id,
                                   LAMBDA k : k.capacity_liters))
       \/ ~Usable(DensityOf(product_id))

----------------------------------------------------------------------------
(* C1 - Capacity invariant: for every schedule date, the planned drums of  *)
(* all stored schedule days of that date add up to at most the daily       *)
(* capacity.                                                               *)

C1_CapacityInvariant ==
    \A i \in Indices(production_schedule_days) :
        PlannedDrums(LAMBDA d : d.schedule_date =
                         production_schedule_days[i].schedule_date)
            <= DailyCapacity

(* C2 - Regeneration idempotence: a regeneration that directly follows a   *)
(* regeneration of the same week (nothing else changed in between) leaves  *)
(* the same campaign aggregates, schedule-day rows and requirement rows,   *)
(* identifiers aside, and adds no row.                                     *)

C2_RegenerationIdempotent ==
    [][ ( /\ IsRegenerateStep
          /\ result.op = "regenerate_schedule"
          /\ result'.week_start = result.week_start )
        => /\ CampaignAggregates' = CampaignAggregates
           /\ DayRows' = DayRows
           /\ RequirementRows' = RequirementRows
           /\ Len(production_campaigns') = Len(production_campaigns)
           /\ Len(production_schedule_days') = Len(production_schedule_days)
           /\ Len(production_day_requirements')
                 = Len(production_day_requirements) ]_vars

(* C3 - Approval idempotence: an approval that directly follows an         *)
(* approval of the same week leaves the same reservations and creates no   *)
(* additional one.                                                         *)

C3_ApprovalIdempotent ==
    [][ ( /\ IsApproveStep
          /\ result.op = "approve_schedule"
          /\ result'.week_start = result.week_start )
        => /\ ReservationRows' = ReservationRows
           /\ Len(inventory_reservations') = Len(inventory_reservations) ]_vars

(* C4 - Conservation: when the campaigns of one regeneration run together  *)
(* fit in the 7-day window (so none is truncated), the schedule days the   *)
(* run stored with a campaign's id carry exactly the campaign's total      *)
(* drums.                                                                  *)

RunFitsWindow(created_at) ==
    SumQty(Column(find(production_campaigns,
                       LAMBDA c : c.created_at = created_at),
                  LAMBDA c : c.total_drums))
        <= WindowDays * DailyCapacity

C4_Conservation ==
    \A i \in Indices(production_campaigns) :
        LET c == production_campaigns[i]
        IN  RunFitsWindow(c.created_at)
            => PlannedDrums(LAMBDA d : /\ d.campaign_id = c.id
                                       /\ d.created_at = c.created_at)
                  = c.total_drums

(* C5 - Frame of regeneration: regenerate_schedule(W) leaves every stored  *)
(* schedule day that is not DRAFT, and every schedule day of another week, *)
(* in the store and unchanged.                                             *)

C5_RegenerateKeepsOtherDays ==
    [][ IsRegenerateStep
        => \A i \in Indices(production_schedule_days) :
              LET d == production_schedule_days[i]
              IN  (d.status # "DRAFT" \/ d.week_start # result'.week_start)
                  => Cardinality({j \in Indices(production_schedule_days') :
                        production_schedule_days'[j].id = d.id}) = 1
                     /\ d \in Range(production_schedule_days') ]_vars

\* a second regeneration of a week was made over READY and BLOCKED days
\* of the first one
C5_Witness ==
    /\ result.op = "regenerate_schedule"
    /\ \E d1, d2, d3 \in Range(production_schedule_days) :
          /\ d1.week_start = result.week_start
          /\ d2.week_start = result.week_start
          /\ d3.week_start = result.week_start
          /\ d1.created_at < d3.created_at
          /\ d2.created_at < d3.created_at
          /\ d1.status = "READY"
          /\ d2.status = "BLOCKED"

(* C6 - Campaigns are created fresh: after a regeneration of the only week *)
(* that has schedule days, the stored campaigns are exactly the ones the   *)
(* run consolidated, one per consolidation key.                            *)

C6_CampaignsFresh ==
    ( /\ result.op = "regenerate_schedule"
      /\ result.ret.campaigns_created > 0
      /\ \A d \in Range(production_schedule_days) :
            d.week_start = result.week_start )
    => /\ Len(production_campaigns) = result.ret.campaigns_created
       /\ \A i, j \in Indices(production_campaigns) :
             KeyOf(production_campaigns[i]) = KeyOf(production_campaigns[j])
                => i = j

(* C7 - Inventory is read-only for the scheduler: no step changes a        *)
(* balance, a regeneration (with its availability checks) changes no       *)
(* reservation, and reservations change only in approve_schedule.          *)

C7_InventoryReadOnly ==
    [][ /\ inventory_balances' = inventory_balances
        /\ IsRegenerateStep
              => inventory_reservations' = inventory_reservations
        /\ inventory_reservations' # inventory_reservations
              => IsApproveStep /\ result'.op = "approve_schedule" ]_vars

\* a regeneration checked availability while reservations existed
C7_Witness ==
    /\ result.op = "regenerate_schedule"
    /\ inventory_reservations # <<>>
    /\ \E d \in Range(production_schedule_days) :
          /\ d.created_at = Stamp - 1
          /\ \E q \in Range(production_day_requirements) :
                q.schedule_day_id = d.id

(* C8 - approve_schedule(W) appends, for every READY day of week W and     *)
(* every requirement record of that day, exactly one reservation with the  *)
(* requirement's item, ref_type SCHEDULE_DAY, the day's id and the         *)
(* required quantity, and appends nothing else.                            *)

NewReservations ==
    SubSeq(inventory_reservations', Len(inventory_reservations) + 1,
           Len(inventory_reservations'))

C8_ApproveReservesReadyDays ==
    [][ IsApproveStep
        => LET ready == {d \in Range(production_schedule_days) :
                            /\ d.week_start = result'.week_start
                            /\ d.status = "READY"}
               reqs == production_day_requirements
               new == NewReservations
           IN  /\ SubSeq(inventory_reservations', 1,
                         Len(inventory_reservations)) = inventory_reservations
               /\ \A n \in Indices(new) :
                     /\ new[n].ref_type = "SCHEDULE_DAY"
                     /\ \E d \in ready : \E q \in Indices(reqs) :
                           /\ reqs[q].schedule_day_id = d.id
                           /\ new[n].ref_id = d.id
                           /\ new[n].item_id = reqs[q].item_id
                           /\ new[n].qty = reqs[q].required_qty
               /\ \A d \in ready : \A q \in Indices(reqs) :
                     reqs[q].schedule_day_id = d.id
                     => Cardinality({n \in Indices(new) :
                            /\ new[n].ref_id = d.id
                            /\ new[n].item_id = reqs[q].item_id
                            /\ new[n].qty = reqs[q].required_qty})
                        = Cardinality({r \in Indices(reqs) :
                            /\ reqs[r].schedule_day_id = d.id
                            /\ reqs[r].item_id = reqs[q].item_id
                            /\ reqs[r].required_qty = reqs[q].required_qty}) ]_vars

\* an approval reserved for a READY day while the week also had a BLOCKED
\* day with requirement records
C8_Witness ==
    /\ result.op = "approve_schedule"
    /\ result.ret.reservations_created > 0
    /\ \E d \in Range(production_schedule_days) :
          /\ d.week_start = result.week_start
          /\ d.status = "BLOCKED"
          /\ \E q \in Range(production_day_requirements) :
                q.schedule_day_id = d.id

(* C10 - When no net weight resolves for the product and packaging of a    *)
(* schedule day's campaign, the day is BLOCKED with reason                 *)
(* CONVERSION_MISSING and has no requirement row and no requisition line.  *)

C10_ConversionMissing ==
    \A d \in Range(production_schedule_days) :
        \A c \in Range(production_campaigns) :
            (c.id = d.campaign_id /\ NoConversion(c.product_id, c.packaging_id))
            => /\ d.status = "BLOCKED"
               /\ d.blocking_reason = "CONVERSION_MISSING"
               /\ \A q \in Range(production_day_requirements) :
                     q.schedule_day_id # d.id
               /\ \A l \in Range(procurement_requisition_lines) :
                     l.linked_schedule_day_id # d.id

\* a day of a campaign without conversion was stored
C10_Witness ==
    \E d \in Range(production_schedule_days) :
        \E c \in Range(production_campaigns) :
            /\ c.id = d.campaign_id
            /\ NoConversion(c.product_id, c.packaging_id)
            /\ d.blocking_reason = "CONVERSION_MISSING"

(* C9 - get_net_weight_kg returns the first value that resolves (is set   *)
(* and not zero), in this order: the net weight of the pair's spec, the    *)
(* packaging's default net weight, capacity times density; and None when   *)
(* none of the three resolves.                                             *)

C9_NetWeightResolution ==
    result.op = "get_net_weight_kg"
    => LET p == result.ret.product_id
           k == result.ret.packaging_id
           spec_weight == SpecWeightOf(p, k)
           default == PackagingFieldOf(k, LAMBDA x : x.net_weight_kg_default)
           capacity == PackagingFieldOf(k, LAMBDA x : x.capacity_liters)
           density == DensityOf(p)
           tier1 == Usable(spec_weight)
           tier2 == Usable(default)
           tier3 == Usable(capacity) /\ Usable(density)
       IN  /\ tier1 => result.ret.value = spec_weight
           /\ (~tier1 /\ tier2) => result.ret.value = default
           /\ (~tier1 /\ ~tier2 /\ tier3)
                 => result.ret.value = capacity * density
           /\ (~tier1 /\ ~tier2 /\ ~tier3) => result.ret.value = None

\* the spec of the pair and the packaging default both resolve and differ
C9_Witness ==
    /\ result.op = "get_net_weight_kg"
    /\ Usable(SpecWeightOf(result.ret.product_id, result.ret.packaging_id))
    /\ Usable(PackagingFieldOf(result.ret.packaging_id,
                               LAMBDA x : x.net_weight_kg_default))
    /\ result.ret.value = 190
    /\ Len(product_packaging_specs) = 2

(* C11 - When a net weight resolves but the formulation of a schedule     *)
(* day's campaign has no items, the day is stored BLOCKED with reason      *)
(* BOM_MISSING, without requirement row and without requisition line, and  *)
(* the run still stores the days of all its allocations: the planned drums *)
(* of the run add up to the drums of its campaigns (at most the window).   *)

BomItemsOf(bom_id) ==
    {i \in Indices(product_bom_items) : product_bom_items[i].bom_id = bom_id}

RunStoredAllDays(created_at) ==
    PlannedDrums(LAMBDA d : d.created_at = created_at)
        = Min2(SumQty(Column(find(production_campaigns,
                                  LAMBDA c : c.created_at = created_at),
                             LAMBDA c : c.total_drums)),
               WindowDays * DailyCapacity)

C11_BomMissing ==
    \A d \in Range(production_schedule_days) :
        \A c \in Range(production_campaigns) :
            ( /\ c.id = d.campaign_id
              /\ ~NoConversion(c.product_id, c.packaging_id)
              /\ BomItemsOf(c.bom_id) = {} )
            => /\ d.status = "BLOCKED"
               /\ d.blocking_reason = "BOM_MISSING"
               /\ \A q \in Range(production_day_requirements) :
                     q.schedule_day_id # d.id
               /\ \A l \in Range(procurement_requisition_lines) :
                     l.linked_schedule_day_id # d.id
               /\ RunStoredAllDays(d.created_at)

\* a day without formulation items was stored and the same run stored
\* another day after it
C11_Witness ==
    \E d, e \in Range(production_schedule_days) :
        \E c \in Range(production_campaigns) :
            /\ c.id = d.campaign_id
            /\ ~NoConversion(c.product_id, c.packaging_id)
            /\ BomItemsOf(c.bom_id) = {}
            /\ d.blocking_reason = "BOM_MISSING"
            /\ e.created_at = d.created_at
            /\ e.id > d.id

----------------------------------------------------------------------------
(* Vocabulary of the availability properties *)

\* the day passed the conversion check and the formulation check of the
\* campaign it is linked to
PassesChecks(d, c) ==
    /\ c.id = d.campaign_id
    /\ ~NoConversion(c.product_id, c.packaging_id)
    /\ BomItemsOf(c.bom_id) # {}

\* the net weight of one unit: spec of the pair, packaging default,
\* capacity times density
NetWeightOf(product_id, packaging_id) ==
    LET spec_weight == SpecWeightOf(product_id, packaging_id)
        default == PackagingFieldOf(packaging_id,
                                    LAMBDA k : k.net_weight_kg_default)
    IN  IF Usable(spec_weight) THEN spec_weight
        ELSE IF Usable(default) THEN default
        ELSE PackagingFieldOf(packaging_id, LAMBDA k : k.capacity_liters)
                 * DensityOf(product_id)

\* the items of the packaging's active packaging BOM, if it has one
ActivePackItems(packaging_id) ==
    LET at == {i \in Indices(packaging_boms) :
                  /\ packaging_boms[i].packaging_id = packaging_id
                  /\ packaging_boms[i].is_active}
    IN  IF at = {} THEN <<>>
        ELSE find(packaging_bom_items,
                  LAMBDA pi : pi.packaging_bom_id = packaging_boms[MinOf(at)].id)

RowsOfDay(d) ==
    find(production_day_requirements, LAMBDA q : q.schedule_day_id = d.id)

ShortRows(d, item_type) ==
    {q \in Range(production_day_requirements) :
        /\ q.schedule_day_id = d.id
        /\ q.item_type = item_type
        /\ q.shortage_qty > 0}

OnHandOf(item_id) ==
    LET at == {i \in Indices(inventory_balances) :
                  inventory_balances[i].item_id = item_id}
    IN  IF at = {} THEN 0 ELSE inventory_balances[MinOf(at)].on_hand

ReservedOf(item_id) ==
    SumQty(Column(find(inventory_reservations,
                       LAMBDA r : r.item_id = item_id),
                  LAMBDA r : r.qty))

\* the purchase-order lines of the item promised on or before the date
\* whose order is SENT or PARTIAL
InboundLines(item_id, date) ==
    find(purchase_order_lines,
         LAMBDA l : /\ l.item_id = item_id
                    /\ l.promised_delivery_date # None
                    /\ l.promised_delivery_date <= date
                    /\ \E o \in Range(purchase_orders) :
                          o.id = l.po_id /\ o.status \in {"SENT", "PARTIAL"})

\* inbound counted as what is still to be received of each line
AvailabilityOf(item_id, date) ==
    OnHandOf(item_id) - ReservedOf(item_id)
      + SumQty(Column(InboundLines(item_id, date),
                      LAMBDA l : Max2(0, l.qty - l.received_qty)))

\* inbound counted as the quantity of each line
AvailabilityByLineQty(item_id, date) ==
    OnHandOf(item_id) - ReservedOf(item_id)
      + SumQty(Column(InboundLines(item_id, date), LAMBDA l : l.qty))

\* the day was stored by the call that has just returned
StoredByLastCall(d) ==
    result.op = "regenerate_schedule" /\ d.created_at = CallsMade

(* C12 - A schedule day that passes the conversion and formulation checks  *)
(* is READY with reason NONE exactly when none of its RAW and PACK rows    *)
(* has a positive shortage; else it is BLOCKED, with RAW_SHORTAGE when     *)
(* only RAW rows are short, PACK_SHORTAGE when only PACK rows are short,   *)
(* RAW_PACK_SHORTAGE when rows of both tiers are short.                    *)

C12_Classification ==
    \A d \in Range(production_schedule_days) :
        \A c \in Range(production_campaigns) :
            PassesChecks(d, c)
            => LET raw == ShortRows(d, "RAW") # {}
                   pack == ShortRows(d, "PACK") # {}
               IN  /\ d.status = IF raw \/ pack THEN "BLOCKED" ELSE "READY"
                   /\ d.blocking_reason =
                         IF raw /\ pack THEN "RAW_PACK_SHORTAGE"
                         ELSE IF raw THEN "RAW_SHORTAGE"
                         ELSE IF pack THEN "PACK_SHORTAGE"
                         ELSE "NONE"

\* days short of PACK only and of both tiers are stored
C12_Witness ==
    \E d, e \in Range(production_schedule_days) :
        /\ \E c \in Range(production_campaigns) : PassesChecks(d, c)
        /\ \E c \in Range(production_campaigns) : PassesChecks(e, c)
        /\ ShortRows(d, "RAW") = {} /\ ShortRows(d, "PACK") # {}
        /\ ShortRows(e, "RAW") # {} /\ ShortRows(e, "PACK") # {}

(* C13 - A schedule day that passes the conversion and formulation checks *)
(* has exactly one requirement row per formulation item (RAW, required =   *)
(* planned drums x net weight x ratio) followed by one per item of the     *)
(* packaging's active packaging BOM (PACK, required = planned drums x      *)
(* quantity per drum), short or not; each row's shortage is max(0,         *)
(* required - available) and its available quantity is the availability    *)
(* of the item on the day's date; without an active packaging BOM there    *)
(* is no PACK row and the day is not blocked for PACK.                     *)

C13_RequirementRows ==
    \A d \in Range(production_schedule_days) :
        \A c \in Range(production_campaigns) :
            PassesChecks(d, c)
            => LET rows == RowsOfDay(d)
                   raw == find(product_bom_items,
                               LAMBDA b : b.bom_id = c.bom_id)
                   pack == ActivePackItems(c.packaging_id)
                   weight == NetWeightOf(c.product_id, c.packaging_id)
               IN  /\ Len(rows) = Len(raw) + Len(pack)
                   /\ \A i \in Indices(raw) :
                         /\ rows[i].item_type = "RAW"
                         /\ rows[i].item_id = raw[i].material_item_id
                         /\ rows[i].required_qty =
                               d.planned_drums * weight
                                 * raw[i].qty_kg_per_kg_finished
                   /\ \A i \in Indices(pack) :
                         /\ rows[Len(raw) + i].item_type = "PACK"
                         /\ rows[Len(raw) + i].item_id = pack[i].pack_item_id
                         /\ rows[Len(raw) + i].required_qty =
                               d.planned_drums * pack[i].qty_per_drum
                   /\ \A i \in Indices(rows) :
                         /\ rows[i].shortage_qty =
                               Max2(0, rows[i].required_qty
                                         - rows[i].available_qty_snapshot)
                         /\ StoredByLastCall(d)
                               => rows[i].available_qty_snapshot =
                                     AvailabilityOf(rows[i].item_id,
                                                    d.schedule_date)
                   /\ pack = <<>>
                         => d.blocking_reason
                               \notin {"PACK_SHORTAGE", "RAW_PACK_SHORTAGE"}

\* a day whose packaging has no active packaging BOM was stored READY with
\* a RAW row that is not short
C13_Witness ==
    \E d \in Range(production_schedule_days) :
        \E c \in Range(production_campaigns) :
            /\ PassesChecks(d, c)
            /\ StoredByLastCall(d)
            /\ ActivePackItems(c.packaging_id) = <<>>
            /\ packaging_boms # <<>>
            /\ RowsOfDay(d) # <<>>
            /\ d.status = "READY"

(* C14 - The availability of an item on a date is the on-hand quantity     *)
(* minus all reservations of the item plus, for the purchase-order lines   *)
(* of the item promised on or before the date whose order is SENT or       *)
(* PARTIAL, what is still to be received of each line (quantity minus      *)
(* received quantity, when positive); other lines contribute nothing.      *)
(* Observed in the snapshot of every requirement row of the last run.      *)

C14_AvailabilityOutstanding ==
    \A d \in Range(production_schedule_days) :
        StoredByLastCall(d)
        => \A i \in Indices(RowsOfDay(d)) :
              RowsOfDay(d)[i].available_qty_snapshot =
                  AvailabilityOf(RowsOfDay(d)[i].item_id, d.schedule_date)

\* the same with the inbound lines counted at their full quantity, as the
\* claim has it
C14_AvailabilityLineQuantities ==
    \A d \in Range(production_schedule_days) :
        StoredByLastCall(d)
        => \A i \in Indices(RowsOfDay(d)) :
              RowsOfDay(d)[i].available_qty_snapshot =
                  AvailabilityByLineQty(RowsOfDay(d)[i].item_id,
                                        d.schedule_date)

\* a run took a snapshot of an item that had reservations and an inbound
\* line of a PARTIAL order, part of it received
C14_Witness ==
    \E d \in Range(production_schedule_days) :
        /\ StoredByLastCall(d)
        /\ \E q \in Range(production_day_requirements) :
              /\ q.schedule_day_id = d.id
              /\ ReservedOf(q.item_id) > 0
              /\ \E l \in Range(InboundLines(q.item_id, d.schedule_date)) :
                    l.received_qty > 0

----------------------------------------------------------------------------
(* Vocabulary of the requisition properties *)

LineKey(l) ==
    <<l.pr_id, l.item_id, l.required_by, l.linked_schedule_day_id>>

\* the positive shortages computed for the item on the schedule day
ShortagesOf(schedule_day_id, item_id) ==
    {q.shortage_qty : q \in {x \in Range(production_day_requirements) :
                                /\ x.schedule_day_id = schedule_day_id
                                /\ x.item_id = item_id
                                /\ x.shortage_qty > 0}}

MaxOf(S) == CHOOSE x \in S : \A y \in S : x >= y

LinesOf(schedule_day_id, item_id) ==
    {i \in Indices(procurement_requisition_lines) :
        /\ procurement_requisition_lines[i].linked_schedule_day_id
              = schedule_day_id
        /\ procurement_requisition_lines[i].item_id = item_id}

DraftRequisitions ==
    {i \in Indices(procurement_requisitions) :
        procurement_requisitions[i].status = "DRAFT"}

(* C15 - Procurement dedup: in every state reached by regenerate_schedule  *)
(* and generate_from_production_shortages calls, no two requisition lines  *)
(* have the same requisition, item, required-by date and linked schedule   *)
(* day.                                                                    *)

C15_ProcurementDedup ==
    \A i, j \in Indices(procurement_requisition_lines) :
        LineKey(procurement_requisition_lines[i])
            = LineKey(procurement_requisition_lines[j])
        => i = j

\* every shortage was requested again by generate_from_production_shortages
\* (the lines existed) and one of the days lists an item twice
C15_Witness ==
    /\ result.op = "generate_from_production_shortages"
    /\ result.ret.shortages_found > 0
    /\ result.ret.lines_created = 0
    /\ \E d \in Range(production_schedule_days) :
          Cardinality(ShortagesOf(d.id, "M1")) = 2

(* C16 - A requisition line carries the largest shortage the generator was *)
(* given for its requisition, item, required-by date and schedule day: a   *)
(* later, larger shortage for an existing line raises the line's quantity, *)
(* a smaller one leaves it.  (Every positive shortage of a requirement row *)
(* is given to the generator by the run that computes it.)                 *)

C16_QuantityIsLargestShortage ==
    \A l \in Range(procurement_requisition_lines) :
        ShortagesOf(l.linked_schedule_day_id, l.item_id) # {}
        => l.qty = MaxOf(ShortagesOf(l.linked_schedule_day_id, l.item_id))

(* C17 - Starting with at most one DRAFT requisition, there is at most one *)
(* DRAFT requisition in every state, and every shortage line belongs to    *)
(* it.                                                                     *)

C17_SingleDraftRequisition ==
    /\ Cardinality(DraftRequisitions) <= 1
    /\ \A l \in Range(procurement_requisition_lines) :
          \E i \in DraftRequisitions :
              procurement_requisitions[i].id = l.pr_id

\* two runs added lines, next to a requisition that is not DRAFT
C17_Witness ==
    /\ \E r \in Range(procurement_requisitions) : r.status # "DRAFT"
    /\ \E d, e \in Range(production_schedule_days) :
          /\ d.created_at # e.created_at
          /\ \E l, m \in Range(procurement_requisition_lines) :
                /\ l.linked_schedule_day_id = d.id
                /\ m.linked_schedule_day_id = e.id

(* C18 - A schedule day stored BLOCKED for a RAW, PACK or RAW_PACK         *)
(* shortage has, for each item with a positive shortage on the day,        *)
(* exactly one requisition line linked to the day and the item, required   *)
(* by the day's date, for the shortage computed for the item (the largest, *)
(* if the item has several rows); a READY day has no line.                 *)

C18_BlockedDaysHaveLines ==
    \A d \in Range(production_schedule_days) :
        /\ ( d.status = "BLOCKED"
             /\ d.blocking_reason \in {"RAW_SHORTAGE", "PACK_SHORTAGE",
                                       "RAW_PACK_SHORTAGE"} )
           => \A q \in Range(production_day_requirements) :
                 (q.schedule_day_id = d.id /\ q.shortage_qty > 0)
                 => /\ Cardinality(LinesOf(d.id, q.item_id)) = 1
                    /\ \A i \in LinesOf(d.id, q.item_id) :
                          LET l == procurement_requisition_lines[i]
                          IN  /\ l.required_by = d.schedule_date
                              /\ l.qty = MaxOf(ShortagesOf(d.id, q.item_id))
        /\ d.status = "READY"
           => \A l \in Range(procurement_requisition_lines) :
                 l.linked_schedule_day_id # d.id

----------------------------------------------------------------------------
(* Vocabulary of the consolidation properties *)

RECURSIVE SumFn(_, _)
SumFn(f, S) ==
    IF S = {} THEN 0
    ELSE LET x == CHOOSE y \in S : TRUE
         IN  f[x] + SumFn(f, S \ {x})

\* the open demand lines: pending or in production, packed in drums, of a
\* manufactured product and a known packaging
OpenLines ==
    {j \in Indices(job_orders) :
        /\ job_orders[j].status \in {"pending", "in_production"}
        /\ job_orders[j].packaging_type = "DRUM"
        /\ \E p \in Range(products) :
              p.id = job_orders[j].product_id /\ p.type = "MANUFACTURED"
        /\ \E k \in Range(packaging) : k.id = job_orders[j].packaging_id}

Pins(j) == job_orders[j].bom_version # None

\* the formulation of the line: the pinned version of its product, or the
\* product's active formulation when it pins none; NoRow if there is none
FormulationOf(j) ==
    LET at == {i \in Indices(product_boms) :
                  /\ product_boms[i].product_id = job_orders[j].product_id
                  /\ IF Pins(j)
                     THEN product_boms[i].version = job_orders[j].bom_version
                     ELSE product_boms[i].is_active}
    IN  IF at = {} THEN NoRow ELSE product_boms[MinOf(at)]

Resolvable == {j \in OpenLines : FormulationOf(j) # NoRow}
Unresolvable == {j \in OpenLines : FormulationOf(j) = NoRow}

SpecOrNone(spec_id) == IF spec_id = NoneStr THEN "NONE" ELSE spec_id

LineKeyOf(j) ==
    <<job_orders[j].product_id, job_orders[j].packaging_id,
      SpecOrNone(job_orders[j].spec_id), FormulationOf(j).id>>

CampaignKeyOf(c) ==
    <<c.product_id, c.packaging_id, SpecOrNone(c.spec_id), c.bom_id>>

Runs == {c.created_at : c \in Range(production_campaigns)}

CampaignsOfRun(created_at) ==
    {i \in Indices(production_campaigns) :
        production_campaigns[i].created_at = created_at}

LinesOfCampaign(c) == {j \in Resolvable : LineKeyOf(j) = CampaignKeyOf(c)}

LinksOfCampaign(c) ==
    find(production_campaign_job_links, LAMBDA l : l.campaign_id = c.id)

\* the quantity of a line: in half drums as stored, and cut to whole drums
HalfDrums(j) == job_orders[j].quantity
WholeDrums(j) == job_orders[j].quantity \div 2

DatedLines(lines) == {j \in lines : job_orders[j].delivery_date # None}

\* the due date of a line; a line without one counts as due today
DueOf(j) ==
    IF job_orders[j].delivery_date = None THEN Today
    ELSE job_orders[j].delivery_date

\* every resolvable line has exactly one campaign of its key in the run
OneCampaignPerKey(created_at) ==
    \A j \in Resolvable :
        Cardinality({i \in CampaignsOfRun(created_at) :
            CampaignKeyOf(production_campaigns[i]) = LineKeyOf(j)}) = 1

\* the links of the campaign list each of its lines once
OneLinkPerLine(c) ==
    /\ LinesOfCampaign(c) # {}
    /\ Len(LinksOfCampaign(c)) = Cardinality(LinesOfCampaign(c))
    /\ \A j \in LinesOfCampaign(c) :
          Cardinality({n \in Indices(LinksOfCampaign(c)) :
              LinksOfCampaign(c)[n].job_order_item_id = job_orders[j].id}) = 1
    /\ SumQty(Column(LinksOfCampaign(c), LAMBDA l : l.drums_allocated))
          = c.total_drums

(* Consolidation with the quantities and dates as the code takes them: in  *)
(* every run, the open lines with a resolved formulation that share        *)
(* (product, packaging, specification or none, formulation id) have        *)
(* exactly one campaign and lines that differ in a field have different    *)
(* campaigns; total_drums is the sum of the lines' quantities cut to whole *)
(* drums, the earliest due date is the minimum of the lines' due dates (a  *)
(* line without one counting as due at the time of the run), and the links *)
(* list each line once with its whole drums, adding up to total_drums.     *)

C19_ConsolidationWholeDrums ==
    \A t \in Runs :
        /\ OneCampaignPerKey(t)
        /\ \A i \in CampaignsOfRun(t) :
              LET c == production_campaigns[i]
                  lines == LinesOfCampaign(c)
                  links == LinksOfCampaign(c)
              IN  /\ OneLinkPerLine(c)
                  /\ c.total_drums = SumFn([j \in lines |-> WholeDrums(j)],
                                           lines)
                  /\ c.earliest_due_date = MinOf({DueOf(j) : j \in lines})
                  /\ \A j \in lines : \A n \in Indices(links) :
                        links[n].job_order_item_id = job_orders[j].id
                        => links[n].drums_allocated = WholeDrums(j)

(* C19 - Consolidation: the open lines that share (product, packaging,    *)
(* specification or none, formulation id) form exactly one campaign and    *)
(* lines that differ in a field form different campaigns; total_drums is   *)
(* the sum of the lines' quantities, the earliest due date is the minimum  *)
(* of the due dates the lines have, and the links list each line once with *)
(* the line's quantity, adding up to total_drums.                          *)

C19_Consolidation ==
    \A t \in Runs :
        /\ OneCampaignPerKey(t)
        /\ \A i \in CampaignsOfRun(t) :
              LET c == production_campaigns[i]
                  lines == LinesOfCampaign(c)
                  links == LinksOfCampaign(c)
              IN  /\ OneLinkPerLine(c)
                  /\ 2 * c.total_drums
                        = SumFn([j \in lines |-> HalfDrums(j)], lines)
                  /\ DatedLines(lines) # {}
                        => c.earliest_due_date =
                              MinOf({job_orders[j].delivery_date :
                                        j \in DatedLines(lines)})
                  /\ \A j \in lines : \A n \in Indices(links) :
                        links[n].job_order_item_id = job_orders[j].id
                        => 2 * links[n].drums_allocated = HalfDrums(j)

\* a campaign of two lines was stored, one of them with half a drum and
\* no delivery date
C19_Witness ==
    \E c \in Range(production_campaigns) :
        /\ Cardinality(LinesOfCampaign(c)) = 2
        /\ Len(LinksOfCampaign(c)) = 2
        /\ \E j \in LinesOfCampaign(c) :
              /\ HalfDrums(j) # 2 * WholeDrums(j)
              /\ job_orders[j].delivery_date = None
        /\ DatedLines(LinesOfCampaign(c)) # {}

(* C20 - An open line whose formulation cannot be resolved is in no        *)
(* campaign: no job link references it, the campaigns of a run total the   *)
(* drums of the resolvable lines only, every schedule day belongs to a     *)
(* campaign of resolvable lines and the days of a run carry the drums of   *)
(* its campaigns (at most the window), and                                 *)
(* nothing is stored when no line resolves.  A line that pins a version    *)
(* has, in every run, a campaign of that formulation and version.          *)

----------------------------------------------------------------------------
(* Vocabulary of the allocation properties.  The job orders and the        *)
(* reference data are not changed by any handler, so the campaigns and the *)
(* allocation a run works on are those of the current store.               *)

\* campaigns_map of the run, in first-seen order
RunCampaignsMap == consolidate(DB, open_job_items(DB), <<>>, Today)

\* campaigns_list of the run, in allocation order
RunCampaignsList == sort_campaigns(RunCampaignsMap, <<>>)

\* daily_allocations of the run
RunAllocations ==
    allocate(RunCampaignsList, 1, [i \in 0..(WindowDays - 1) |-> <<>>])

JustRegenerated == result.op = "regenerate_schedule"

\* none of the campaign's demand lines has a due date
Undated(c) == DatedLines(LinesOfCampaign(c)) = {}

(* C21 - Campaigns whose demand lines carry no due date are allocated      *)
(* after every campaign that has a due date: in the allocation order of a  *)
(* run, no undated campaign stands before a dated one.                     *)

C21_UndatedCampaignsLast ==
    JustRegenerated
    => \A i, j \in 1..Len(RunCampaignsList) :
          (i < j /\ Undated(RunCampaignsList[i]))
          => Undated(RunCampaignsList[j])

\* the place of the campaign's first demand line among the job orders
FirstSeen(c) == MinOf(LinesOfCampaign(c))

\* the days on which the campaign at the given place of the allocation
\* order receives units
DaysOf(daily_allocations, campaign) ==
    {d \in 0..(WindowDays - 1) :
        \E a \in Range(daily_allocations[d]) : a.campaign = campaign}

\* the campaign receives units on the day and the day is full once it has
FillsDay(daily_allocations, campaign, d) ==
    \E n \in 1..Len(daily_allocations[d]) :
        /\ daily_allocations[d][n].campaign = campaign
        /\ SumQty(Column(SubSeq(daily_allocations[d], 1, n),
                         LAMBDA a : a.drums)) = DailyCapacity

(* C22 - Campaigns are allocated in ascending order of earliest due date   *)
(* and campaigns of equal earliest due date in the order their keys were   *)
(* first seen among the demand lines; a campaign that precedes another in  *)
(* this order receives units on a day after the first day of the other     *)
(* only if it also fills that first day.                                   *)

C22_AllocationOrder ==
    JustRegenerated
    => \A list \in {RunCampaignsList} : \A allocs \in {RunAllocations} :
       /\ Len(list) = Cardinality({LineKeyOf(j) : j \in Resolvable})
       /\ \A i, j \in 1..Len(list) :
             i < j
             => /\ \/ list[i].earliest_due_date < list[j].earliest_due_date
                   \/ /\ list[i].earliest_due_date = list[j].earliest_due_date
                      /\ FirstSeen(list[i]) < FirstSeen(list[j])
                /\ \A d \in DaysOf(allocs, i) :
                      (DaysOf(allocs, j) # {} /\ d > MinOf(DaysOf(allocs, j)))
                      => FillsDay(allocs, i, MinOf(DaysOf(allocs, j)))

\* a run allocated two campaigns of the same due date after a campaign
\* that was seen later and is due earlier, one of them over several days
C22_Witness ==
    /\ JustRegenerated
    /\ \E list \in {RunCampaignsList} : \E allocs \in {RunAllocations} :
          /\ \E i, j \in 1..Len(list) :
                /\ i < j
                /\ list[i].earliest_due_date = list[j].earliest_due_date
                /\ DaysOf(allocs, i) # {} /\ DaysOf(allocs, j) # {}
                /\ MinOf(DaysOf(allocs, j)) = MaxOf(DaysOf(allocs, i))
          /\ \E i, j \in 1..Len(list) :
                /\ i < j
                /\ FirstSeen(list[i]) > FirstSeen(list[j])
                /\ Cardinality(DaysOf(allocs, j)) > 1

(* C23 - Demand beyond the window is dropped: every schedule day stored   *)
(* by regenerate_schedule(W) is of week W and dated W to W + 6, the        *)
(* planned drums of a run are the drums of its campaigns up to 7 times the *)
(* daily capacity and no more, and every campaign record carries the full  *)
(* drums of its lines, placed or not.                                      *)

C23_WindowOverflowDropped ==
    /\ \A d \in Range(production_schedule_days) :
          /\ d.schedule_date \in d.week_start..(d.week_start + WindowDays - 1)
          /\ StoredByLastCall(d) => d.week_start = result.week_start
    /\ \A t \in Runs :
          /\ PlannedDrums(LAMBDA d : d.created_at = t)
                <= WindowDays * DailyCapacity
          /\ RunStoredAllDays(t)
    /\ \A c \in Range(production_campaigns) :
          c.total_drums = SumFn([j \in LinesOfCampaign(c) |-> WholeDrums(j)],
                                LinesOfCampaign(c))

\* a run stored a full window for campaigns of more drums than the window
\* holds, one of them larger than the window
C23_Witness ==
    /\ JustRegenerated
    /\ \E c \in Range(production_campaigns) :
          /\ c.created_at = CallsMade
          /\ c.total_drums > WindowDays * DailyCapacity
    /\ Cardinality(CampaignsOfRun(CallsMade)) > 1
    /\ PlannedDrums(LAMBDA d : d.created_at = CallsMade)
          = WindowDays * DailyCapacity
    /\ \E d \in Range(production_schedule_days) :
          /\ StoredByLastCall(d)
          /\ d.schedule_date = result.week_start + WindowDays - 1

\* the units of the allocations of a day, in the order they were made
DrumsOn(daily_allocations, d) ==
    Column(daily_allocations[d], LAMBDA a : a.drums)

(* C27 - The allocator fills the days earliest first and without gaps: in  *)
(* the allocation of a run, day d + 1 receives units only if day d is      *)
(* filled exactly to the daily capacity, every allocation has at least one *)
(* unit, and a campaign has one allocation on each of a run of consecutive *)
(* days; campaigns of 400, 300 and 1 drums in due-date order give          *)
(* day 0 = 400 + 200 and day 1 = 100 + 1.                                  *)

C27_NoGaps ==
    JustRegenerated
    => \A list \in {RunCampaignsList} : \A allocs \in {RunAllocations} :
       /\ \A d \in 0..(WindowDays - 2) :
             allocs[d + 1] # <<>>
             => SumQty(DrumsOn(allocs, d)) = DailyCapacity
       /\ \A d \in 0..(WindowDays - 1) :
             /\ \A a \in Range(allocs[d]) : a.drums >= 1
             /\ \A m, n \in 1..Len(allocs[d]) :
                   allocs[d][m].campaign = allocs[d][n].campaign => m = n
       /\ \A k \in 1..Len(list) :
             \A d, e \in DaysOf(allocs, k) :
                 \A between \in d..e : between \in DaysOf(allocs, k)
       /\ Column(list, LAMBDA c : c.total_drums) = <<400, 300, 1>>
             => /\ DrumsOn(allocs, 0) = <<400, 200>>
                /\ DrumsOn(allocs, 1) = <<100, 1>>
                /\ \A d \in 2..(WindowDays - 1) : allocs[d] = <<>>

\* the run allocated campaigns of 400, 300 and 1 drums
C27_Witness ==
    /\ JustRegenerated
    /\ Column(RunCampaignsList, LAMBDA c : c.total_drums) = <<400, 300, 1>>
    /\ DrumsOn(RunAllocations, 1) = <<100, 1>>

\* the for loop of Step 4 has ended
AllocationDone == result.op = "allocation" /\ result.ret.at = "done"

\* the while loop of a campaign has ended
WhileLoopLeft ==
    result.op = "allocation" /\ result.ret.at = "while" /\ ~LoopCondition

(* C30 - The capacity allocation loop terminates: the for loop over the    *)
(* campaigns comes to its end, and the while loop of each campaign is left *)
(* with no remaining units or with the day cursor at 7.                    *)

C30_AllocationTerminates ==
    /\ <>AllocationDone
    /\ [](WhileLoopLeft
            => \/ result.ret.remaining_drums = 0
               \/ result.ret.day_offset = WindowDays)

\* the loop ended for campaigns of which one has no units, one met a day
\* that was already full, and one was left with units after the last day
C30_Witness ==
    /\ AllocationDone
    /\ \E k \in 1..Len(result.ret.campaigns_list) :
          result.ret.campaigns_list[k] = 0
    /\ \E k \in 1..Len(result.ret.campaigns_list) :
          /\ result.ret.campaigns_list[k] > 0
          /\ 0 \notin DaysOf(result.ret.daily_allocations, k)
    /\ result.ret.remaining_drums > 0
    /\ result.ret.day_offset = WindowDays

\* the schedule days stored by the last call, in the order they were stored
DaysOfLastCall ==
    find(production_schedule_days, LAMBDA d : d.created_at = CallsMade)

\* the summary counts the campaigns of the run and its allocations, and
\* the run stored one schedule day for each allocation, with its date and
\* its units
SummaryCountsAllocations ==
    \A allocations \in {allocations_in_order(RunAllocations, 0)} :
        /\ result.ret.campaigns_created
              = Cardinality({LineKeyOf(j) : j \in Resolvable})
        /\ result.ret.schedule_days_created = Len(allocations)
        /\ Len(DaysOfLastCall) = Len(allocations)
        /\ \A n \in 1..Len(allocations) :
              /\ DaysOfLastCall[n].schedule_date
                    = result.week_start + allocations[n].day_offset
              /\ DaysOfLastCall[n].planned_drums = allocations[n].drums
              /\ DaysOfLastCall[n].status \in {"READY", "BLOCKED"}

(* C28 - When regenerate_schedule returns a success summary, its           *)
(* campaigns_created is the number of consolidated campaigns and its       *)
(* schedule_days_created is the number of allocations of the run, each of  *)
(* which has exactly one stored schedule day with its planned units,       *)
(* whatever the day's status.                                              *)

C28_SummaryComplete ==
    (JustRegenerated /\ result.ret.success)
    => /\ {"campaigns_created", "schedule_days_created"}
             \subseteq DOMAIN result.ret
       /\ SummaryCountsAllocations

\* the same for the runs that find an open drum job order
SummaryCompleteWithOpenLines ==
    (JustRegenerated /\ result.ret.success /\ OpenLines # {})
    => SummaryCountsAllocations

(* C29 - Every stored schedule day is READY or BLOCKED, never DRAFT,      *)
(* IN_PROGRESS or DONE, and its blocking reason is NONE exactly when it is *)
(* READY; no step of the engine changes the status of a stored day, and    *)
(* approve_schedule leaves every day's status as it is.                    *)

C29_DayStatuses ==
    /\ [](\A d \in Range(production_schedule_days) :
             /\ d.status \in {"READY", "BLOCKED"}
             /\ d.blocking_reason = "NONE" <=> d.status = "READY")
    /\ [][\A d \in Range(production_schedule_days) :
             \A e \in Range(production_schedule_days') :
                 e.id = d.id => e.status = d.status]_vars
    /\ [][IsApproveStep
             => /\ Len(production_schedule_days')
                      = Len(production_schedule_days)
                /\ \A i \in Indices(production_schedule_days) :
                      production_schedule_days'[i].status
                          = production_schedule_days[i].status]_vars

\* an approval has gone over a week that has a READY and a BLOCKED day
C29_Witness ==
    /\ result.op = "approve_schedule"
    /\ result.ret.ready_days_approved > 0
    /\ \E d, e \in Range(production_schedule_days) :
          /\ d.week_start = result.week_start
          /\ e.week_start = result.week_start
          /\ d.status = "READY"
          /\ e.status = "BLOCKED"

----------------------------------------------------------------------------
(* Vocabulary of the BOM properties *)

ActiveFormulations(product_id) ==
    {i \in Indices(product_boms) :
        product_boms[i].product_id = product_id /\ product_boms[i].is_active}

ActivePackagingBoms(packaging_id) ==
    {i \in Indices(packaging_boms) :
        /\ packaging_boms[i].packaging_id = packaging_id
        /\ packaging_boms[i].is_active}

(* C24 - At most one formulation per product is active after any sequence  *)
(* of create_product_bom and activate_product_bom requests, and after a    *)
(* successful activate_product_bom(b) the active formulation of the        *)
(* product of b is exactly b.                                              *)

C24_OneActiveFormulation ==
    /\ \A b \in Range(product_boms) :
          Cardinality(ActiveFormulations(b.product_id)) <= 1
    /\ (result.op = "activate_product_bom" /\ result.ret.status_code = 200)
       => \E i \in Indices(product_boms) :
             /\ product_boms[i].id = result.ret.id
             /\ ActiveFormulations(product_boms[i].product_id) = {i}

\* an activation made a formulation the active one although a later one
\* of the same product is stored, and a product is left with none active
C24_Witness ==
    /\ result.op = "activate_product_bom"
    /\ result.ret.status_code = 200
    /\ \E i, j \in Indices(product_boms) :
          /\ i < j
          /\ product_boms[i].id = result.ret.id
          /\ product_boms[j].product_id = product_boms[i].product_id
          /\ product_boms[i].is_active
    /\ \E b \in Range(product_boms) : ActiveFormulations(b.product_id) = {}

(* C25 - At most one packaging BOM per packaging is active after any       *)
(* sequence of create_packaging_bom and activate_packaging_bom requests.   *)

C25_OneActivePackagingBom ==
    \A b \in Range(packaging_boms) :
        Cardinality(ActivePackagingBoms(b.packaging_id)) <= 1

----------------------------------------------------------------------------
(* Vocabulary of the unified schedule properties *)

UnifiedReturned == result.op = "get_unified_production_schedule"

UnifiedSchedule == result.ret.response.schedule

\* the days (1-based positions in the schedule) with an entry of the job
UnifiedDaysOf(schedule, job_id) ==
    {d \in 1..Len(schedule) :
        \E n \in 1..Len(schedule[d].jobs) : schedule[d].jobs[n].job_id = job_id}

\* the quantity scheduled for the job over the whole schedule, exactly
RECURSIVE exact_sum(_)
exact_sum(seq) ==
    IF seq = <<>> THEN int_to_double(0)
    ELSE exact_add(seq[1], exact_sum(Tail(seq)))

UnifiedScheduledOf(schedule, job_id) ==
    exact_sum([d \in 1..Len(schedule) |->
                 exact_sum(Column(SelectSeq(schedule[d].jobs,
                                            LAMBDA e : e.job_id = job_id),
                                  LAMBDA e : e.quantity))])

\* the three statements of the claim about one returned schedule
UnifiedDaysWithinCapacity(schedule) ==
    \A d \in 1..Len(schedule) :
        /\ double_le(schedule[d].drums_scheduled, DRUMS_PER_DAY)
        /\ double_le(int_to_double(0), schedule[d].drums_remaining)
        /\ exact_add(schedule[d].drums_scheduled, schedule[d].drums_remaining)
              = DRUMS_PER_DAY

UnifiedSplitOverConsecutiveDays(schedule) ==
    \A job \in Range(job_orders) :
        \A on \in {UnifiedDaysOf(schedule, job.id)} :
            /\ \A a, b \in on : \A d \in a..b : d \in on
            /\ \A d \in on :
                  Len(SelectSeq(schedule[d].jobs,
                                LAMBDA e : e.job_id = job.id)) = 1

UnifiedPartsWithinQuantity(schedule) ==
    \A job \in Range(job_orders) :
        double_le(UnifiedScheduledOf(schedule, job.id), job.quantity)

(* C26 - Unified production schedule: whatever open job orders (of        *)
(* non-negative quantity) are stored and however many days are requested, *)
(* the schedule has exactly that many days; every day has drums_scheduled *)
(* at most 600 drums, drums_remaining at least 0 and the two add up to    *)
(* 600; a job that does not fit into what is left of a day is split over  *)
(* consecutive days, and its parts never add up to more than the job's    *)
(* original quantity.                                                     *)
C26_UnifiedScheduleCapacity ==
    UnifiedReturned =>
      \A schedule \in {UnifiedSchedule} :
        /\ Len(schedule) = result.ret.days
        /\ UnifiedDaysWithinCapacity(schedule)
        /\ UnifiedSplitOverConsecutiveDays(schedule)
        /\ UnifiedPartsWithinQuantity(schedule)

\* a job of 1500 drums behind a smaller one: split over three days
C26_Witness ==
    /\ UnifiedReturned
    /\ \E job \in Range(job_orders) :
          /\ double_lt(DRUMS_PER_DAY, job.quantity)
          /\ Cardinality(UnifiedDaysOf(UnifiedSchedule, job.id)) = 3
          /\ 1 \in UnifiedDaysOf(UnifiedSchedule, job.id)
          /\ UnifiedSchedule[1].jobs[1].job_id # job.id
          /\ UnifiedSchedule[1].drums_remaining = int_to_double(0)

\* every stored quantity is a whole number of half drums
UnifiedHalfDrums ==
    \A job \in Range(job_orders) :
        job.quantity.lo = 0 /\ job.quantity.hi % (UnitsPerDrum \div 2) = 0

\* what holds of the schedule, whatever the quantities
UnifiedScheduleShape ==
    UnifiedReturned =>
      \A schedule \in {UnifiedSchedule} :
        /\ Len(schedule) = result.ret.days
        /\ UnifiedSplitOverConsecutiveDays(schedule)
        /\ \A d \in 1..Len(schedule) :
              double_le(int_to_double(0), schedule[d].drums_remaining)

\* all of it holds when the quantities are whole numbers of half drums
UnifiedScheduleCapacityInHalfDrums ==
    UnifiedReturned /\ UnifiedHalfDrums =>
      \A schedule \in {UnifiedSchedule} :
        /\ UnifiedDaysWithinCapacity(schedule)
        /\ UnifiedPartsWithinQuantity(schedule)

====
